---------------------------- MODULE Spec2Model ----------------------------
(***************************************************************************)
(* Model of playwright_bot_template:                                       *)
(*   - RecoveryManager (src/bot_core.py): the A -> B -> C escalation       *)
(*     ladder with cooldown and the "A still failing" bypass;              *)
(*   - multi_point_test (src/proxy_helper.py): health classification of    *)
(*     three latency probes;                                               *)
(*   - update_subscription (src/proxy_helper.py): debounced, locked        *)
(*     subscription update run by concurrent threads.                      *)
(* Each component has its own next-state relation and specification; the   *)
(* variables of the other components keep their initial values.            *)
(***************************************************************************)
EXTENDS Integers, Sequences, FiniteSets, TLC

VARIABLES
    \* ---- RecoveryManager fields (bot_core.py 366-375)
    error_count_a,
    error_count_b,
    last_recovery_level,
    a_still_fail_count,
    last_recovery_time,
    \* ---- process and clock
    now,            \* time.time(), whole seconds
    running,        \* FALSE once sys.exit was called
    exit_code,      \* the status passed to sys.exit, -1 while running
    \* ---- history of the RecoveryManager calls
    call,           \* what the most recent handle_error call did
    lastop,         \* the most recent RecoveryManager operation
    \* ---- multi_point_test (proxy_helper.py 110-144)
    results,        \* the latencies test_single_url returned, in TEST_URLS order
    health,         \* the pair multi_point_test returned
    checked,        \* the latest check_health call: what it read and returned
    \* ---- update_subscription (proxy_helper.py 32-35, 262-327)
    last_subscribe_update,  \* _last_subscribe_update
    subscribe_lock,         \* _subscribe_lock: 0 when free, else the holder
    status_file,            \* content of subscribe_status.json
    tmp_file,               \* content of subscribe_status.json.tmp
    pc,             \* per thread: where it is in update_subscription
    t_now,          \* per thread: the local `now` (line 283)
    t_url,          \* per thread: the local sub_url (line 293)
    t_status,       \* per thread: arguments of the pending status write
    rec,            \* per thread: what its current or latest call did
    fetch_log,      \* `now` of every call that performed the fetch, in order
    ncalls,         \* update_subscription calls started
    last_attempt,   \* time at which the latest call entered the critical section
    reload_log,     \* reload requests update_subscription sent to the control plane
    \* ---- try_fix_network (proxy_helper.py 223-254)
    selected,       \* control plane: the node each group has selected ("now")
    fix,            \* what the most recent try_fix_network call did
    \* ---- main and check_remote_control (strategy_bot.py 200-296,
    \*      bot_core.py 232-266)
    main_pc,        \* where main is
    end_reason,     \* why the process ended, "none" while it runs
    cycle,          \* the current or latest iteration of the main loop
    cmd_file,       \* the command file: NoFile, or a write id and content
    lock_file,      \* the pause-lock file exists
    rc_ret,         \* what the latest check_remote_control call did
    rc_raw,         \* what check_remote_control read (local)
    executed,       \* the commands check_remote_control acted on, in order
    nwrites,        \* times the operator wrote the command file
    \* ---- mask_url (bot_core.py 150-171)
    mask_in,        \* the URL mask_url was last applied to
    mask_out        \* the text it returned

recoveryVars == <<error_count_a, error_count_b, last_recovery_level,
                  a_still_fail_count, last_recovery_time, now, running,
                  exit_code, call, lastop>>

healthVars == <<results, health, checked>>

updateVars == <<last_subscribe_update, subscribe_lock, status_file, tmp_file, pc,
                t_now, t_url, t_status, rec, fetch_log, ncalls,
                last_attempt, reload_log>>

failoverVars == <<selected, fix>>

mainVars == <<main_pc, end_reason, cycle, cmd_file, lock_file, rc_raw, rc_ret,
              executed, nwrites>>

maskVars == <<mask_in, mask_out>>

vars == <<recoveryVars, healthVars, updateVars, failoverVars, mainVars,
          maskVars>>

-----------------------------------------------------------------------------
(* Program constants: bot_core.py 60-70 *)
RECOVERY_MAX_A_ERRORS == 5
RECOVERY_MAX_B_ERRORS == 3
RECOVERY_MAX_A_STILL_FAIL == 3
RECOVERY_COOLDOWN_SECONDS == 30
RECOVERY_C_RESTART_DELAY_SECONDS == 30
RECOVERY_RESTART_EXIT_CODE == 2

(* Bounds of the model *)
StartClock == 40    \* first clock reading; any reading is far more than the
                    \* cooldown after last_recovery_time = 0
ClockStep == 10     \* the short step of the clock
MaxClock == 70      \* Tick stops here

-----------------------------------------------------------------------------
(* RecoveryManager *)

NoCall == [kind |-> "none", time |-> 0, cooldown |-> FALSE,
           acts |-> <<>>, ret |-> "none",
           pre_a |-> 0, pre_b |-> 0, pre_s |-> 0, pre_level |-> "None",
           asf |-> 0,
           prev_kind |-> "none", prev_time |-> 0, prev_ret |-> "none"]

InitRecovery ==
    /\ error_count_a = 0
    /\ error_count_b = 0
    /\ last_recovery_level = "None"
    /\ a_still_fail_count = 0
    /\ last_recovery_time = 0
    /\ now = StartClock
    /\ running = TRUE
    /\ exit_code = -1
    /\ call = NoCall
    /\ lastop = "none"

\* A cooldown measured against the wrong unit never holds.
CooldownNever(current_time) ==
    current_time - last_recovery_time < 0

\* line 415: the cooldown gate
CooldownActive(current_time) ==
    current_time - last_recovery_time < RECOVERY_COOLDOWN_SECONDS

\* lines 422-425: the "A still failing" tracker
NextStillFail ==
    IF last_recovery_level = "A" THEN a_still_fail_count + 1 ELSE 0

BypassToBStrict(asf) == asf > RECOVERY_MAX_A_STILL_FAIL

\* line 427
BypassToB(asf) == asf >= RECOVERY_MAX_A_STILL_FAIL

EscalateToBStrict(cnt_a) == cnt_a > RECOVERY_MAX_A_ERRORS

\* line 452
EscalateToB(cnt_a) == cnt_a >= RECOVERY_MAX_A_ERRORS

EscalateToCStrict(cnt_b) == cnt_b > RECOVERY_MAX_B_ERRORS

\* lines 438 and 464
EscalateToC(cnt_b) == cnt_b >= RECOVERY_MAX_B_ERRORS

\* The delay taken before the notification is handed over.
LevelCSleepFirst == <<"sleep", "notify", "exit">>

\* trigger_level_c, lines 401-409: send_alert_email (best effort: it returns
\* whether or not a mail went out), time.sleep(30), sys.exit(2)
LevelCEvents == <<"notify", "sleep", "exit">>

\* The ghost record of a handle_error call entered at current_time.
CallRecord(current_time, asf, acts, ret) ==
    [kind |-> "handle", time |-> current_time,
     cooldown |-> CooldownActive(current_time), acts |-> acts, ret |-> ret,
     pre_a |-> error_count_a, pre_b |-> error_count_b,
     pre_s |-> a_still_fail_count, pre_level |-> last_recovery_level,
     asf |-> asf,
     prev_kind |-> call.kind, prev_time |-> call.time, prev_ret |-> call.ret]

\* A success path that clears every counter, whatever the level.
FinishClearingAll(current_time, asf, a, b, s, lvl, t, acts, ret) ==
    /\ error_count_a' = (IF ret = "true" THEN 0 ELSE a)
    /\ error_count_b' = (IF ret = "true" THEN 0 ELSE b)
    /\ a_still_fail_count' = (IF ret = "true" THEN 0 ELSE s)
    /\ last_recovery_level' = lvl
    /\ last_recovery_time' = t
    /\ call' = CallRecord(current_time, asf, acts, ret)
    /\ lastop' = "handle"
    /\ IF ret = "exit"
       THEN /\ running' = FALSE
            /\ exit_code' = RECOVERY_RESTART_EXIT_CODE
            /\ now' = now + RECOVERY_C_RESTART_DELAY_SECONDS
       ELSE UNCHANGED <<running, exit_code, now>>

\* The state after handle_error ran to its return or to sys.exit.
\*   a, b, s, lvl, t: the five fields; acts: recovery actions in order;
\*   ret: "true" | "false" | "exit"
Finish(current_time, asf, a, b, s, lvl, t, acts, ret) ==
    /\ error_count_a' = a
    /\ error_count_b' = b
    /\ a_still_fail_count' = s
    /\ last_recovery_level' = lvl
    /\ last_recovery_time' = t
    /\ call' = CallRecord(current_time, asf, acts, ret)
    /\ lastop' = "handle"
    /\ IF ret = "exit"
       THEN /\ running' = FALSE
            /\ exit_code' = RECOVERY_RESTART_EXIT_CODE
            /\ now' = now + RECOVERY_C_RESTART_DELAY_SECONDS
       ELSE UNCHANGED <<running, exit_code, now>>

\* A Level B success that leaves error_count_b as it was.
LevelBSucceededKeepingB(current_time, asf, acts) ==
    Finish(current_time, asf, 0, error_count_b, 0, "B", current_time, acts,
           "true")

\* lines 429-434 and 454-459: recover_level_b returned True
LevelBSucceeded(current_time, asf, acts) ==
    Finish(current_time, asf, 0, 0, 0, "B", current_time, acts, "true")

\* handle_error(page, error_type, context), lines 411-467.
\*   a_ok: page.reload succeeds (recover_level_a returns True)
\*   b_ok: page.goto succeeds (recover_level_b returns True)
handle_error(a_ok, b_ok) ==
    /\ running
    /\ LET current_time == now
           asf == NextStillFail
       IN
       IF CooldownActive(current_time)
       THEN \* 415-417
            Finish(current_time, a_still_fail_count,
                   error_count_a, error_count_b, a_still_fail_count,
                   last_recovery_level, last_recovery_time, <<>>, "false")
       ELSE IF BypassToB(asf)
       THEN \* 427-440
            IF b_ok
            THEN LevelBSucceeded(current_time, asf, <<"B_ok">>)
            ELSE LET b == error_count_b + 1 IN
                 IF EscalateToC(b)
                 THEN Finish(current_time, asf, error_count_a, b, asf,
                             last_recovery_level, last_recovery_time,
                             <<"B_fail">> \o LevelCEvents, "exit")
                 ELSE Finish(current_time, asf, error_count_a, b, asf,
                             last_recovery_level, last_recovery_time,
                             <<"B_fail">>, "false")
       ELSE IF a_ok
       THEN \* 443-447
            Finish(current_time, asf, 0, error_count_b, asf, "A",
                   current_time, <<"A_ok">>, "true")
       ELSE \* 448-467
            LET a == error_count_a + 1 IN
            IF EscalateToB(a)
            THEN IF b_ok
                 THEN LevelBSucceeded(current_time, asf,
                                      <<"A_fail", "B_ok">>)
                 ELSE LET b == error_count_b + 1 IN
                      IF EscalateToC(b)
                      THEN Finish(current_time, asf, a, b, asf,
                                  last_recovery_level, last_recovery_time,
                                  <<"A_fail", "B_fail">> \o LevelCEvents,
                                  "exit")
                      ELSE Finish(current_time, asf, a, b, asf,
                                  last_recovery_level, last_recovery_time,
                                  <<"A_fail", "B_fail">>, "false")
            ELSE IF EscalateToC(error_count_b)
                 THEN Finish(current_time, asf, a, error_count_b, asf,
                             last_recovery_level, last_recovery_time,
                             <<"A_fail">> \o LevelCEvents, "exit")
                 ELSE Finish(current_time, asf, a, error_count_b, asf,
                             last_recovery_level, last_recovery_time,
                             <<"A_fail">>, "false")

HandleError ==
    /\ \E a_ok, b_ok \in BOOLEAN : handle_error(a_ok, b_ok)
    /\ UNCHANGED <<healthVars, updateVars, failoverVars, mainVars,
                   maskVars>>

\* handle_error with page.reload and page.goto failing: recover_level_a
\* (lines 377-387) and recover_level_b (lines 389-399) both return False.
HandleErrorFailing ==
    /\ handle_error(FALSE, FALSE)
    /\ UNCHANGED <<healthVars, updateVars, failoverVars, mainVars,
                   maskVars>>

\* A reset that forgets last_recovery_level.
reset_counters_only ==
    /\ running
    /\ error_count_a' = 0
    /\ error_count_b' = 0
    /\ a_still_fail_count' = 0
    /\ lastop' = "reset"
    /\ UNCHANGED <<last_recovery_level, last_recovery_time, now, running,
                   exit_code, call>>

\* reset_counters, lines 469-474
reset_counters ==
    /\ running
    /\ error_count_a' = 0
    /\ error_count_b' = 0
    /\ a_still_fail_count' = 0
    /\ last_recovery_level' = "None"
    /\ lastop' = "reset"
    /\ UNCHANGED <<last_recovery_time, now, running, exit_code, call>>

\* reset_counters called on its own
ResetCounters ==
    /\ reset_counters
    /\ UNCHANGED <<healthVars, updateVars, failoverVars, mainVars,
                   maskVars>>

\* Time passes between two calls of the agent thread.
Tick ==
    /\ running
    /\ \E d \in {ClockStep, RECOVERY_COOLDOWN_SECONDS} :
          /\ now + d <= MaxClock
          /\ now' = now + d
    /\ UNCHANGED <<error_count_a, error_count_b, last_recovery_level,
                   a_still_fail_count, last_recovery_time, running,
                   exit_code, call, lastop>>
    /\ UNCHANGED <<healthVars, updateVars, failoverVars, mainVars,
                   maskVars>>

NextRecovery == HandleError \/ ResetCounters \/ Tick

\* A caller that meets nothing but failing reloads and navigations.
NextPersist == HandleErrorFailing \/ Tick

-----------------------------------------------------------------------------
(* Health Prober: multi_point_test *)

\* proxy_helper.py 73-77
HEALTH_THRESHOLDS_EXCELLENT == 300
HEALTH_THRESHOLDS_HEALTHY == 800
HEALTH_THRESHOLDS_DEGRADED == 1500

\* What test_single_url can return: the delay the API reported, or 0 when the
\* probe raised (lines 106-108).
ProbeLatencies == {0, 100, 250, 300, 799, 800, 900, 1499, 1500}

\* TEST_URLS has three entries (lines 53-57)
NumTestUrls == 3

NoHealth == [latency |-> -1, status |-> "unknown"]

\* No check_health call is the latest operation of the prober.
NoCheck == [called |-> FALSE, api_ok |-> FALSE, proxies |-> <<>>, cur |-> "",
            node |-> "", latency |-> 0, is_healthy |-> FALSE, probed |-> 0]

InitHealth ==
    /\ results = <<>>
    /\ health = NoHealth
    /\ checked = NoCheck

\* line 123
ValidLatencies(res) == SelectSeq(res, LAMBDA l : l > 0)

\* line 124
FailedCount(res) == Len(res) - Len(ValidLatencies(res))

MajorityFailedAll(failed_count) == failed_count > 2

\* line 127
MajorityFailed(failed_count) == failed_count >= 2

\* The lower of the two middle elements (1-based).
LowerMiddleIndex(n) == (n - 1) \div 2 + 1

\* line 133: valid_latencies[len(valid_latencies) // 2], as a 1-based index
MedianIndex(n) == n \div 2 + 1

\* The thresholds taken as inclusive upper limits.
StatusOfInclusive(median) ==
    IF median <= HEALTH_THRESHOLDS_EXCELLENT THEN "excellent"
    ELSE IF median <= HEALTH_THRESHOLDS_HEALTHY THEN "healthy"
    ELSE IF median <= HEALTH_THRESHOLDS_DEGRADED THEN "degraded"
    ELSE "unhealthy"

\* lines 135-142
StatusOf(median) ==
    IF median < HEALTH_THRESHOLDS_EXCELLENT THEN "excellent"
    ELSE IF median < HEALTH_THRESHOLDS_HEALTHY THEN "healthy"
    ELSE IF median < HEALTH_THRESHOLDS_DEGRADED THEN "degraded"
    ELSE "unhealthy"

\* The valid latencies left in probe order.
KeepOrder(valid_latencies) == valid_latencies

\* line 132: valid_latencies.sort()
SortLatencies(valid_latencies) ==
    SortSeq(valid_latencies, LAMBDA x, y : x < y)

\* lines 122-144, applied to the three probe results
multi_point_test(res) ==
    LET valid_latencies == ValidLatencies(res)
        failed_count == FailedCount(res)
    IN  IF MajorityFailed(failed_count)
        THEN [latency |-> 9999, status |-> "unhealthy"]
        ELSE IF valid_latencies # <<>>
        THEN LET sorted == SortLatencies(valid_latencies)
                 median == sorted[MedianIndex(Len(sorted))]
             IN  [latency |-> median, status |-> StatusOf(median)]
        ELSE [latency |-> 9999, status |-> "unhealthy"]

\* One run of multi_point_test: the three probes (lines 117-120) return any
\* latencies, then the results are classified.
MultiPointTest ==
    /\ \E res \in [1..NumTestUrls -> ProbeLatencies] :
          /\ results' = res
          /\ health' = multi_point_test(res)
    /\ checked' = NoCheck
    /\ UNCHANGED <<recoveryVars, updateVars, failoverVars, mainVars,
                   maskVars>>

NextHealth == MultiPointTest


-----------------------------------------------------------------------------
(* Subscription Updater: update_subscription *)

\* proxy_helper.py 35
MIN_SUBSCRIBE_INTERVAL == 30

NumThreads == 2         \* threads that may call update_subscription
MaxUpdateCalls == 2     \* calls started in one behaviour

Threads == 1..NumThreads

\* bot_core.py 35
MASK_URL_VISIBLE_PREFIX_CHARS == 25

\* Strings are sequences of characters, so that a prefix can be cut and a
\* substring looked for.
\* A URL is given by the parts urlparse splits it into; the query is the
\* list of its key=value pairs. NoUrl is None or the empty string.
NoUrl == [scheme |-> <<>>, netloc |-> <<>>, path |-> <<>>, query |-> <<>>]

\* https://sub.example.com/link?token=SECRET
TokenUrl == [scheme |-> <<"h", "t", "t", "p", "s">>,
             netloc |-> <<"s", "u", "b", ".", "e", "x", "a", "m", "p", "l", "e", ".", "c", "o", "m">>,
             path |-> <<"/", "l", "i", "n", "k">>,
             query |-> <<[k |-> <<"t", "o", "k", "e", "n">>, v |-> <<"S", "E", "C", "R", "E", "T">>]>>]

\* Subscription URLs get_sub_url can return: none configured, or a URL with a
\* credential in its query string.
SubUrls == {NoUrl, TokenUrl}

RECURSIVE JoinPairs(_, _)
\* k1=v1&k2=v2...; vals[i] is the text written for the i-th key
JoinPairs(keys, vals) ==
    IF keys = <<>>
    THEN <<>>
    ELSE keys[1] \o <<"=">> \o vals[1]
         \o (IF Len(keys) > 1 THEN <<"&">> ELSE <<>>)
         \o JoinPairs(Tail(keys), Tail(vals))

\* The text of a URL, as get_sub_url returns it.
UrlText(url) ==
    url.scheme \o <<":", "/", "/">> \o url.netloc \o url.path
    \o (IF url.query = <<>>
        THEN <<>>
        ELSE <<"?">> \o JoinPairs([i \in DOMAIN url.query |-> url.query[i].k],
                                  [i \in DOMAIN url.query |-> url.query[i].v]))

Contains(seq, c) == \E i \in DOMAIN seq : seq[i] = c

\* urlparse raises ValueError ("Invalid IPv6 URL") when the brackets of the
\* network location do not pair up.
UrlparseRaises(url) == Contains(url.netloc, "[") # Contains(url.netloc, "]")

RECURSIVE DistinctKeys(_, _)
\* parse_qs(..., keep_blank_values=True).keys(): the keys in order of first
\* appearance
DistinctKeys(query, seen) ==
    IF query = <<>>
    THEN <<>>
    ELSE IF query[1].k \in seen
         THEN DistinctKeys(Tail(query), seen)
         ELSE <<query[1].k>> \o DistinctKeys(Tail(query), seen \cup {query[1].k})

\* urlencode({k: ['***']}, doseq=True) percent-encodes the asterisks
RedactionMarker == <<"%", "2", "A", "%", "2", "A", "%", "2", "A">>

\* mask_url, bot_core.py 150-171
mask_url(url) ==
    IF url = NoUrl
    THEN <<"(", "e", "m", "p", "t", "y", ")">>
    ELSE IF UrlparseRaises(url)
    THEN LET text == UrlText(url)
         IN  IF Len(text) > MASK_URL_VISIBLE_PREFIX_CHARS
             THEN SubSeq(text, 1, MASK_URL_VISIBLE_PREFIX_CHARS) \o <<".", ".", ".", "*", "*", "*">>
             ELSE text
    ELSE LET base == url.scheme \o <<":", "/", "/">> \o url.netloc \o url.path
             keys == DistinctKeys(url.query, {})
         IN  IF url.query # <<>>
             THEN base \o <<"?">>
                  \o JoinPairs(keys, [i \in DOMAIN keys |-> RedactionMarker])
             ELSE base

NoStatus == [written |-> FALSE, last_update |-> 0, success |-> FALSE,
             url_preview |-> mask_url(NoUrl), error |-> "null",
             complete |-> TRUE]

\* A file holding only the beginning of a document's text: the write stopped
\* before the first field was complete.
Truncated == [written |-> TRUE, last_update |-> 0, success |-> FALSE,
              url_preview |-> <<>>, error |-> "null", complete |-> FALSE]

NoRec == [now |-> 0, why |-> "none", ret |-> "none", fetched |-> FALSE,
          wrote |-> FALSE, write_failed |-> FALSE, after_attempt |-> FALSE]

NoPending == [success |-> FALSE, error |-> "null"]

InitUpdate ==
    /\ last_subscribe_update = 0
    /\ subscribe_lock = 0
    /\ status_file = NoStatus
    /\ tmp_file = NoStatus
    /\ pc = [t \in Threads |-> "idle"]
    /\ t_now = [t \in Threads |-> 0]
    /\ t_url = [t \in Threads |-> NoUrl]
    /\ t_status = [t \in Threads |-> NoPending]
    /\ rec = [t \in Threads |-> NoRec]
    /\ fetch_log = <<>>
    /\ ncalls = 0
    /\ last_attempt = 0
    /\ reload_log = <<>>

\* The fetch-validate-reload critical section: from the acquire of line 289
\* to the release of line 296 or 327.
CriticalSection ==
    {"get_url", "stamp", "fetch", "write_status", "replace",
     "release"}

\* A thread returns from update_subscription: its locals are gone.
Return(t, why, ret) ==
    /\ pc' = [pc EXCEPT ![t] = "idle"]
    /\ rec' = [rec EXCEPT ![t].why = why, ![t].ret = ret]
    /\ t_now' = [t_now EXCEPT ![t] = 0]
    /\ t_url' = [t_url EXCEPT ![t] = NoUrl]
    /\ t_status' = [t_status EXCEPT ![t] = NoPending]

\* The call is made less than MIN_SUBSCRIBE_INTERVAL after the latest
\* attempt, an attempt being a call that got past both guards (lines 284-291).
RecentAttempt ==
    /\ last_attempt > 0
    /\ now - last_attempt < MIN_SUBSCRIBE_INTERVAL

\* line 283: now = time.time()
Begin(t) ==
    /\ pc[t] = "idle"
    /\ UNCHANGED <<recoveryVars, healthVars, failoverVars, mainVars,
                   last_attempt, reload_log, tmp_file,
                   maskVars>>
    /\ ncalls < MaxUpdateCalls
    /\ ncalls' = ncalls + 1
    /\ t_now' = [t_now EXCEPT ![t] = now]
    /\ rec' = [rec EXCEPT ![t] =
                [NoRec EXCEPT !.now = now,
                              !.after_attempt = RecentAttempt]]
    /\ pc' = [pc EXCEPT ![t] = "debounce"]
    /\ UNCHANGED <<last_subscribe_update, subscribe_lock, status_file,
                   t_url, t_status, fetch_log>>

\* line 284
TooSoon(t) == t_now[t] - last_subscribe_update < MIN_SUBSCRIBE_INTERVAL

\* lines 284-286: the debounce guard
Debounce(t) ==
    /\ pc[t] = "debounce"
    /\ UNCHANGED <<recoveryVars, healthVars, failoverVars, mainVars,
                   last_attempt, reload_log, tmp_file,
                   maskVars>>
    /\ IF TooSoon(t)
       THEN Return(t, "debounce", "true")
       ELSE /\ pc' = [pc EXCEPT ![t] = "acquire"]
            /\ UNCHANGED <<rec, t_now, t_url, t_status>>
    /\ UNCHANGED <<last_subscribe_update, subscribe_lock, status_file,
                   fetch_log, ncalls>>

LockAlwaysFree == TRUE

\* line 289: _subscribe_lock.acquire(blocking=False) succeeds
LockFree == subscribe_lock = 0

\* lines 289-291: the non-blocking acquire
Acquire(t) ==
    /\ pc[t] = "acquire"
    /\ UNCHANGED <<recoveryVars, healthVars, failoverVars, mainVars,
                   reload_log, tmp_file,
                   maskVars>>
    /\ IF LockFree
       THEN /\ subscribe_lock' = t
            /\ last_attempt' = now
            /\ pc' = [pc EXCEPT ![t] = "get_url"]
            /\ UNCHANGED <<rec, t_now, t_url, t_status>>
       ELSE /\ Return(t, "busy", "true")
            /\ UNCHANGED <<subscribe_lock, last_attempt>>
    /\ UNCHANGED <<last_subscribe_update, status_file, fetch_log, ncalls>>

\* lines 293-297: get_sub_url; with no URL the lock is released and the call
\* returns False
GetUrl(t) ==
    /\ pc[t] = "get_url"
    /\ UNCHANGED <<recoveryVars, healthVars, failoverVars, mainVars,
                   last_attempt, reload_log, tmp_file,
                   maskVars>>
    /\ \E url \in SubUrls :
          IF url = NoUrl
          THEN /\ subscribe_lock' = 0
               /\ Return(t, "no_url", "false")
          ELSE /\ t_url' = [t_url EXCEPT ![t] = url]
               /\ pc' = [pc EXCEPT ![t] = "stamp"]
               /\ UNCHANGED <<subscribe_lock, rec, t_now, t_status>>
    /\ UNCHANGED <<last_subscribe_update, status_file, fetch_log, ncalls>>

\* line 300: _last_subscribe_update = now
Stamp(t) ==
    /\ pc[t] = "stamp"
    /\ UNCHANGED <<recoveryVars, healthVars, failoverVars, mainVars,
                   last_attempt, reload_log, tmp_file,
                   maskVars>>
    /\ last_subscribe_update' = t_now[t]
    /\ pc' = [pc EXCEPT ![t] = "fetch"]
    /\ UNCHANGED <<subscribe_lock, status_file, t_now, t_url, t_status,
                   rec, fetch_log, ncalls>>

\* lines 303-320 up to the call of _write_subscribe_status: the fetch
\* (urlopen, read) raises, or returns content that fails or passes the
\* marker check of line 310. After a passed check, line 316 builds the
\* address of the reload endpoint and nothing is sent to it: reload_log is
\* left as it is on all three paths.
Fetch(t) ==
    /\ pc[t] = "fetch"
    /\ UNCHANGED <<recoveryVars, healthVars, failoverVars, mainVars,
                   last_attempt, reload_log, tmp_file,
                   maskVars>>
    /\ fetch_log' = Append(fetch_log, t_now[t])
    /\ \E outcome \in {"error", "invalid", "valid"} :
          t_status' = [t_status EXCEPT ![t] =
                CASE outcome = "error" ->
                        [success |-> FALSE, error |-> "exception"]
                  [] outcome = "invalid" ->
                        [success |-> FALSE, error |-> "Invalid content"]
                  [] outcome = "valid" ->
                        [success |-> TRUE, error |-> "null"]]
    /\ rec' = [rec EXCEPT ![t].fetched = TRUE]
    /\ pc' = [pc EXCEPT ![t] = "write_status"]
    /\ UNCHANGED <<last_subscribe_update, subscribe_lock, status_file,
                   t_now, t_url, ncalls>>

\* bot_core.py 104
SUBSCRIBE_STATUS_FILE == "subscribe_status.json"

\* The content written straight to the file itself.
same_path(filepath) == filepath

\* atomic_write, line 131: tmp_path = filepath + '.tmp'
tmp_path(filepath) ==
    CASE filepath = SUBSCRIBE_STATUS_FILE -> "subscribe_status.json.tmp"

\* The content of the file at a path.
FileAt(path) == IF path = SUBSCRIBE_STATUS_FILE THEN status_file ELSE tmp_file

\* The file at a path gets new content.
SetFile(path, content) ==
    IF path = SUBSCRIBE_STATUS_FILE
    THEN status_file' = content /\ UNCHANGED tmp_file
    ELSE tmp_file' = content /\ UNCHANGED status_file

\* What open and write of atomic_write (lines 132-133) can do: open raises
\* and the temporary file is untouched; write raises after a part of the
\* content reached the file; or the whole content is written and the file
\* closed.
WriteOutcomes == {"open_raises", "write_raises", "written"}

\* _write_subscribe_status, lines 262-271, and atomic_write, lines 131-133:
\* the document is built and written to the temporary file. An exception is
\* caught and logged at line 272.
WriteStatus(t) ==
    /\ pc[t] = "write_status"
    /\ UNCHANGED <<recoveryVars, healthVars, failoverVars, mainVars,
                   last_attempt, reload_log, maskVars>>
    /\ \E outcome \in WriteOutcomes :
          LET content == [written |-> TRUE,
                          last_update |-> now,
                          success |-> t_status[t].success,
                          url_preview |-> mask_url(t_url[t]),
                          error |-> t_status[t].error,
                          complete |-> TRUE]
          IN  /\ CASE outcome = "open_raises" ->
                        UNCHANGED <<status_file, tmp_file>>
                   [] outcome = "write_raises" ->
                        SetFile(tmp_path(SUBSCRIBE_STATUS_FILE), Truncated)
                   [] outcome = "written" ->
                        SetFile(tmp_path(SUBSCRIBE_STATUS_FILE), content)
              /\ IF outcome = "written"
                 THEN /\ pc' = [pc EXCEPT ![t] = "replace"]
                      /\ UNCHANGED rec
                 ELSE /\ pc' = [pc EXCEPT ![t] = "release"]
                      /\ rec' = [rec EXCEPT ![t].write_failed = TRUE]
    /\ UNCHANGED <<last_subscribe_update, subscribe_lock, t_now, t_url,
                   t_status, fetch_log, ncalls>>

\* atomic_write, line 134: os.replace(tmp_path, filepath) renames the
\* temporary file over the document in one step, or raises.
Replace(t) ==
    /\ pc[t] = "replace"
    /\ UNCHANGED <<recoveryVars, healthVars, failoverVars, mainVars,
                   last_attempt, reload_log, maskVars>>
    /\ \E replace_ok \in BOOLEAN :
          IF replace_ok
          THEN /\ IF tmp_path(SUBSCRIBE_STATUS_FILE) = SUBSCRIBE_STATUS_FILE
                  THEN UNCHANGED <<status_file, tmp_file>>
                  ELSE /\ status_file' = tmp_file
                       /\ tmp_file' = NoStatus
               /\ rec' = [rec EXCEPT ![t].wrote = TRUE]
          ELSE /\ rec' = [rec EXCEPT ![t].write_failed = TRUE]
               /\ UNCHANGED <<status_file, tmp_file>>
    /\ pc' = [pc EXCEPT ![t] = "release"]
    /\ UNCHANGED <<last_subscribe_update, subscribe_lock, t_now, t_url,
                   t_status, fetch_log, ncalls>>

\* A return that releases the lock on the success path alone.
ReleaseOnSuccess(t) ==
    /\ pc[t] = "release"
    /\ UNCHANGED <<recoveryVars, healthVars, failoverVars, mainVars,
                   last_attempt, reload_log, tmp_file,
                   maskVars>>
    /\ subscribe_lock' = (IF t_status[t].success THEN 0 ELSE subscribe_lock)
    /\ Return(t, IF t_status[t].success THEN "ok" ELSE t_status[t].error,
              IF t_status[t].success THEN "true" ELSE "false")
    /\ UNCHANGED <<last_subscribe_update, status_file, fetch_log, ncalls>>

\* lines 313, 320, 325 with the finally of 326-327: release and return
Release(t) ==
    /\ pc[t] = "release"
    /\ UNCHANGED <<recoveryVars, healthVars, failoverVars, mainVars,
                   last_attempt, reload_log, tmp_file,
                   maskVars>>
    /\ subscribe_lock' = 0
    /\ Return(t, IF t_status[t].success THEN "ok" ELSE t_status[t].error,
              IF t_status[t].success THEN "true" ELSE "false")
    /\ UNCHANGED <<last_subscribe_update, status_file, fetch_log, ncalls>>

update_subscription(t) ==
    \/ Begin(t)
    \/ Debounce(t)
    \/ Acquire(t)
    \/ GetUrl(t)
    \/ Stamp(t)
    \/ Fetch(t)
    \/ WriteStatus(t)
    \/ Replace(t)
    \/ Release(t)

NextUpdate == (\E t \in Threads : update_subscription(t)) \/ Tick


-----------------------------------------------------------------------------
(* Failover Controller: try_fix_network *)

\* The proxy groups the control plane serves at /proxies, in the order of
\* the JSON object (the order proxies.items() iterates in). "all" is the
\* member list served at /proxies/<group>.
ProxyGroups ==
    << [name |-> "Proxy", type |-> "Selector",
        all |-> <<"DIRECT", "hk", "jp", "us">>],
       [name |-> "Auto", type |-> "URLTest",
        all |-> <<"hk", "jp">>],
       [name |-> "Media", type |-> "Selector",
        all |-> <<"jp", "sg", "REJECT">>] >>

GroupNames == {ProxyGroups[i].name : i \in DOMAIN ProxyGroups}

\* What one probe and the switch request that may follow it can yield:
\* test_single_url returns the delay in ms, 0 on any failure; the PUT of
\* switch_node is answered ("ok"), refused ("error": nothing changed) or
\* times out ("timeout": the control plane applied it, the reply was lost).
FixLatencies == {0, 799, 800}
SwitchReplies == {"ok", "error", "timeout"}
FixOutcomes ==
    {[latency |-> l, reply |-> r] : l \in FixLatencies, r \in SwitchReplies}

NoFix == [called |-> FALSE, api_ok |-> FALSE, ret |-> FALSE,
          cands |-> <<>>, probes |-> <<>>, switches |-> <<>>,
          before |-> [g \in GroupNames |-> ""]]

InitFailover ==
    /\ selected = [g \in GroupNames |->
                      CASE g = "Proxy" -> "hk"
                        [] g = "Auto" -> "hk"
                        [] g = "Media" -> "jp"]
    /\ fix = NoFix

\* get_available_nodes, lines 186-199: the members without the special
\* entries; [] when the request fails.
get_available_nodes(group, nodes_ok) ==
    IF nodes_ok
    THEN SelectSeq(group.all, LAMBDA n : n \notin {"DIRECT", "REJECT", "GLOBAL"})
    ELSE <<>>

\* lines 237-244: the nodes of one Selector group that get probed, in
\* order: its available nodes other than the one it has selected.
GroupCandidates(group, sel, nodes_ok) ==
    LET nodes == get_available_nodes(group, nodes_ok)
        others == SelectSeq(nodes, LAMBDA n : n # sel[group.name])
    IN  [i \in DOMAIN others |-> [group |-> group.name, node |-> others[i]]]

RECURSIVE CandidatesFrom(_, _, _)
\* lines 235-244: the walk over proxies.items(), Selector groups only
CandidatesFrom(i, sel, nodes_ok) ==
    IF i > Len(ProxyGroups)
    THEN <<>>
    ELSE LET group == ProxyGroups[i]
         IN  (IF group.type = "Selector"
              THEN GroupCandidates(group, sel, nodes_ok[group.name])
              ELSE <<>>) \o CandidatesFrom(i + 1, sel, nodes_ok)

\* A failed probe (latency 0) counted as qualifying.
QualifiesAny(latency) == latency < HEALTH_THRESHOLDS_HEALTHY

\* line 249: latency > 0 and latency < HEALTH_THRESHOLDS["HEALTHY"]
Qualifies(latency) == latency > 0 /\ latency < HEALTH_THRESHOLDS_HEALTHY

RECURSIVE Walk(_, _, _, _, _, _)
\* lines 243-252 for the candidates from index i on: probe, and after a
\* qualifying probe ask for the switch; return True at the first switch the
\* control plane answers, go on to the next candidate otherwise.
Walk(cands, out, i, probes, switches, sel) ==
    IF i > Len(cands)
    THEN [ret |-> FALSE, probes |-> probes, switches |-> switches, sel |-> sel]
    ELSE LET c == cands[i]
             o == out[i]
             p == Append(probes, [group |-> c.group, node |-> c.node,
                                  latency |-> o.latency])
         IN  IF Qualifies(o.latency)
             THEN LET s == Append(switches,
                                  [group |-> c.group, node |-> c.node,
                                   accepted |-> o.reply = "ok"])
                      sel2 == IF o.reply \in {"ok", "timeout"}
                              THEN [sel EXCEPT ![c.group] = c.node]
                              ELSE sel
                  IN  IF o.reply = "ok"
                      THEN [ret |-> TRUE, probes |-> p, switches |-> s,
                            sel |-> sel2]
                      ELSE Walk(cands, out, i + 1, p, s, sel2)
             ELSE Walk(cands, out, i + 1, p, switches, sel)

\* try_fix_network, lines 223-254
try_fix_network ==
    /\ \E api_ok \in BOOLEAN :
          IF ~api_ok
          THEN \* lines 231-233: get_proxy_groups returned None
               /\ fix' = [NoFix EXCEPT !.called = TRUE, !.before = selected]
               /\ UNCHANGED selected
          ELSE \E nodes_ok \in [GroupNames -> BOOLEAN] :
                  LET cands == CandidatesFrom(1, selected, nodes_ok)
                  IN  \E out \in [DOMAIN cands -> FixOutcomes] :
                         LET w == Walk(cands, out, 1, <<>>, <<>>, selected)
                         IN  /\ fix' = [called |-> TRUE, api_ok |-> TRUE,
                                        ret |-> w.ret, cands |-> cands,
                                        probes |-> w.probes,
                                        switches |-> w.switches,
                                        before |-> selected]
                             /\ selected' = w.sel
    /\ UNCHANGED <<recoveryVars, healthVars, updateVars, mainVars,
                   maskVars>>

NextFailover == try_fix_network


-----------------------------------------------------------------------------
(* Health check of the active node: check_health, get_current_node *)

\* What get_proxy_groups can return when the API answers: the groups above,
\* groups none of which is a Selector, or no group at all.
ServedProxies ==
    { ProxyGroups,
      SelectSeq(ProxyGroups, LAMBDA g : g.type # "Selector"),
      <<>> }

\* What the "now" entry of a Selector group can hold; "" when it is missing.
ActiveNodes == {"", "hk", "DIRECT"}

\* The selections check_health can find: any active node in the first
\* Selector group, while the second Selector group has jp selected.
ActiveSelections ==
    {[g \in GroupNames |-> IF g = "Proxy" THEN n ELSE "jp"] : n \in ActiveNodes}

\* What the three probes of a health check can return: a failure and
\* latencies on both sides of the limits of Excellent, Healthy and Degraded.
CheckLatencies == {0, 250, 799, 800, 1500}

\* get_current_node, lines 160-171: the "now" of the first Selector group in
\* the order of proxies.items(); "" stands for None.
get_current_node(api_ok, proxies, cur) ==
    IF ~api_ok \/ proxies = <<>>
    THEN ""
    ELSE LET selectors == SelectSeq(proxies, LAMBDA g : g.type = "Selector")
         IN  IF selectors = <<>> THEN "" ELSE cur[selectors[1].name]

\* Degraded counted as healthy too.
IsUsableStatus(status) == status \in {"excellent", "healthy", "degraded"}

\* line 218: status in (HealthStatus.EXCELLENT, HealthStatus.HEALTHY)
IsHealthyStatus(status) == status \in {"excellent", "healthy"}

\* check_health, lines 203-221
CheckHealth ==
    /\ \E api_ok \in BOOLEAN, proxies \in ServedProxies,
          cur \in ActiveSelections :
          /\ LET node_name == get_current_node(api_ok, proxies, cur)
                 call_in == [NoCheck EXCEPT !.called = TRUE, !.api_ok = api_ok,
                                            !.proxies = proxies, !.cur = cur]
             IN  IF node_name = ""
                 THEN /\ checked' = [call_in EXCEPT !.node = "Unknown",
                                                    !.latency = -1,
                                                    !.is_healthy = FALSE]
                      /\ UNCHANGED <<results, health>>
                 ELSE \E res \in [1..NumTestUrls -> CheckLatencies] :
                         LET h == multi_point_test(res)
                         IN  /\ results' = res
                             /\ health' = h
                             /\ checked' =
                                   [call_in EXCEPT
                                       !.node = node_name,
                                       !.latency = h.latency,
                                       !.is_healthy = IsHealthyStatus(h.status),
                                       !.probed = NumTestUrls]
    /\ UNCHANGED <<recoveryVars, updateVars, failoverVars, mainVars,
                   maskVars>>

NextCheck == CheckHealth

-----------------------------------------------------------------------------
(* Main loop and Remote Command Channel: strategy_bot.main, run_strategy,
   bot_core.check_remote_control *)

\* bot_core.py 38
REMOTE_COMMAND_EXPIRY_SECONDS == 60

MaxWrites == 2          \* times the operator writes the command file or
                        \* creates the pause-lock file

NoFile == [id |-> 0, content |-> [kind |-> "none", cmd |-> "", ts |-> 0]]

\* How long before it is written a command was stamped: the two examples of
\* the expiry rule, and an age that reaches the limit at a later poll.
CommandAges == {10, 30, 120}

\* What the operator may put in the command file at time t: a JSON object
\* with cmd and a ts some time back, a JSON object without ts (or with a ts
\* of 0, which data.get('ts', 0) does not tell apart), a JSON value that is
\* no object (here the number 42), or plain text. cmd is the command name
\* given, for a JSON value that is no object the whole text.
CommandContents(t) ==
    { [kind |-> "json", cmd |-> "update_subscribe", ts |-> t - age] :
          age \in CommandAges }
    \cup
    { [kind |-> "json", cmd |-> "logout", ts |-> 0],
      [kind |-> "json_other", cmd |-> "42", ts |-> 0],
      [kind |-> "text", cmd |-> "update_subscribe", ts |-> 0] }

\* The expiry test also rejecting a command exactly at the limit.
ExpiredAtLimit(ts, t) == ts # 0 /\ t - ts >= REMOTE_COMMAND_EXPIRY_SECONDS

\* line 224: if ts and time.time() - ts > REMOTE_COMMAND_EXPIRY_SECONDS
Expired(ts, t) == ts # 0 /\ t - ts > REMOTE_COMMAND_EXPIRY_SECONDS

\* _parse_command, lines 210-230: the command name, "None" for None
parse_command(content, t) ==
    CASE content.kind = "json" ->
            IF Expired(content.ts, t)
            THEN "None"
            ELSE content.cmd
      [] content.kind = "json_other" -> "None"
      [] OTHER -> content.cmd

\* What happened in an iteration of the main loop: whether check_health
\* reported the network healthy or try_fix_network returned True, whether
\* check_remote_control was called, and the fault that ended the iteration.
NoCycle == [stage |-> "none", healthy |-> FALSE, polled |-> FALSE,
            fault |-> "none"]

\* What a call of check_remote_control did, until its caller goes on: the
\* kind of content it parsed, whether it dropped a command as expired, how old the command's timestamp
\* was (-1 with no timestamp), whether it waited for the pause-lock file to
\* go, and the value it returned.
NoRet == [kind |-> "none", expired |-> FALSE, age |-> -1, waited |-> FALSE,
          ret |-> "none"]

InitMain ==
    /\ main_pc = "start"
    /\ end_reason = "none"
    /\ cycle = NoCycle
    /\ cmd_file = NoFile
    /\ lock_file = FALSE
    /\ rc_raw = NoFile
    /\ rc_ret = NoRet
    /\ executed = <<>>
    /\ nwrites = 0

\* The statements of the while loop of main, lines 270-293, with those of
\* run_strategy and check_remote_control it calls.
LoopPcs ==
    {"health", "rc_read", "rc_remove", "rc_act", "rc_lock", "rc_wait", "detect",
     "except"}

\* The process is over: main returned or an exception left it.
Exit(reason) ==
    /\ main_pc' = "done"
    /\ end_reason' = reason

\* The main loop ends whenever a recovery did not succeed.
ExitsOnFailure(ret) == ret \in {"exit", "false"}

\* sys.exit (line 409) raises SystemExit, which no handler of main catches
\* (line 291 catches Exception only): the process ends.
ExitsProcess(ret) == ret = "exit"

\* attempt_recovery (lines 476-478) called from main or run_strategy; when
\* it returns the iteration is over and the loop goes on.
AttemptRecovery(fault) ==
    /\ \E a_ok, b_ok \in BOOLEAN : handle_error(a_ok, b_ok)
    /\ IF ExitsProcess(call'.ret)
       THEN /\ Exit("level_c")
            /\ cycle' = [cycle EXCEPT !.fault = fault]
       ELSE /\ main_pc' = "health"
            /\ cycle' = [cycle EXCEPT !.stage = "done", !.fault = fault]
            /\ UNCHANGED end_reason

\* lines 259-262: the first navigation; an exception here is outside the
\* loop's try and leaves main.
MainGoto ==
    /\ main_pc = "start"
    /\ \E goto_ok \in BOOLEAN :
          IF goto_ok
          THEN main_pc' = "login" /\ UNCHANGED end_reason
          ELSE Exit("startup_error")
    /\ UNCHANGED <<cycle, cmd_file, lock_file, rc_raw, rc_ret, executed,
                   nwrites>>
    /\ UNCHANGED <<recoveryVars, healthVars, updateVars, failoverVars,
                   maskVars>>

\* lines 264-268: wait_for_login returns False when its timeout elapses
\* (bot_core.py 504-532), and main returns.
MainLogin ==
    /\ main_pc = "login"
    /\ \E login_required, logged_in \in BOOLEAN :
          IF login_required /\ ~logged_in
          THEN Exit("login_timeout")
          ELSE main_pc' = "health" /\ UNCHANGED end_reason
    /\ UNCHANGED <<cycle, cmd_file, lock_file, rc_raw, rc_ret, executed,
                   nwrites>>
    /\ UNCHANGED <<recoveryVars, healthVars, updateVars, failoverVars,
                   maskVars>>

\* The strategy run whatever the network's health.
health_ignored(is_healthy, fixed) == TRUE

\* ensure_network_health, strategy_bot.py 179-196: True when check_health
\* found the network healthy, else what try_fix_network returned; an
\* exception of either counts as False.
ensure_network_health(is_healthy, fixed) == is_healthy \/ fixed

\* lines 272-276: when ensure_network_health returns False the loop sleeps
\* and starts over; try_fix_network is called only after an unhealthy
\* check. The control plane's selections are not read by main.
MainHealth ==
    /\ main_pc = "health"
    /\ \E is_healthy \in BOOLEAN :
          \E fixed \in (IF is_healthy THEN {FALSE} ELSE BOOLEAN) :
             IF ensure_network_health(is_healthy, fixed)
             THEN /\ main_pc' = "rc_read"
                  /\ cycle' = [NoCycle EXCEPT !.stage = "running",
                                              !.healthy = is_healthy \/ fixed]
             ELSE /\ main_pc' = "health"
                  /\ cycle' = [NoCycle EXCEPT !.stage = "done",
                                              !.healthy = is_healthy \/ fixed,
                                              !.fault = "unhealthy"]
    /\ UNCHANGED <<end_reason, cmd_file, lock_file, rc_raw, rc_ret, executed,
                   nwrites>>
    /\ UNCHANGED <<recoveryVars, healthVars, updateVars, failoverVars,
                   maskVars>>

\* check_remote_control, lines 237-239: the file exists and is read
RcRead ==
    /\ main_pc = "rc_read"
    /\ cycle' = [cycle EXCEPT !.polled = TRUE]
    /\ IF cmd_file # NoFile
       THEN rc_raw' = cmd_file /\ main_pc' = "rc_remove"
       ELSE rc_raw' = NoFile /\ main_pc' = "rc_lock"
    /\ UNCHANGED <<end_reason, cmd_file, lock_file, rc_ret, executed, nwrites>>
    /\ UNCHANGED <<recoveryVars, healthVars, updateVars, failoverVars,
                   maskVars>>

\* The file left in place.
os_keep(file) == file

\* os.remove(CMD_FILE), line 240
os_remove(file) == NoFile

\* line 240: the removal; when it raises, the exception leaves
\* check_remote_control and run_strategy and is caught at line 291.
RcRemove ==
    /\ main_pc = "rc_remove"
    /\ \E remove_ok \in BOOLEAN :
          IF remove_ok
          THEN /\ cmd_file' = os_remove(cmd_file)
               /\ main_pc' = "rc_act"
               /\ UNCHANGED rc_raw
          ELSE /\ main_pc' = "except"
               /\ rc_raw' = NoFile
               /\ UNCHANGED cmd_file
    /\ UNCHANGED <<end_reason, cycle, lock_file, rc_ret, executed, nwrites>>
    /\ UNCHANGED <<recoveryVars, healthVars, updateVars, failoverVars,
                   maskVars>>

\* lines 242-256: parse, then act on the command unless it is None or empty
RcAct ==
    /\ main_pc = "rc_act"
    /\ LET cmd == parse_command(rc_raw.content, now)
       IN  IF cmd \in {"None", ""}
           THEN UNCHANGED executed
           ELSE executed' = Append(executed, [id |-> rc_raw.id, cmd |-> cmd])
    /\ rc_ret' = [rc_ret EXCEPT
                    !.kind = rc_raw.content.kind,
                    !.expired = /\ rc_raw.content.kind = "json"
                                /\ Expired(rc_raw.content.ts, now),
                    !.age = IF rc_raw.content.kind = "json" /\ rc_raw.content.ts # 0
                            THEN now - rc_raw.content.ts
                            ELSE -1]
    /\ rc_raw' = NoFile
    /\ main_pc' = "rc_lock"
    /\ UNCHANGED <<end_reason, cycle, cmd_file, lock_file, nwrites>>
    /\ UNCHANGED <<recoveryVars, healthVars, updateVars, failoverVars,
                   maskVars>>

\* check_remote_control, lines 259 and 266: with no pause-lock file it
\* returns False at once.
RcLock ==
    /\ main_pc = "rc_lock"
    /\ IF lock_file
       THEN /\ main_pc' = "rc_wait"
            /\ rc_ret' = [rc_ret EXCEPT !.waited = TRUE]
       ELSE /\ main_pc' = "detect"
            /\ rc_ret' = [rc_ret EXCEPT !.ret = "false"]
    /\ UNCHANGED <<end_reason, cycle, cmd_file, lock_file, rc_raw, executed,
                   nwrites>>
    /\ UNCHANGED <<recoveryVars, healthVars, updateVars, failoverVars,
                   maskVars>>

\* The pause ends after one sleep, whether or not the file is still there.
RcWaitOnce ==
    /\ main_pc = "rc_wait"
    /\ main_pc' = "detect"
    /\ rc_ret' = [rc_ret EXCEPT !.ret = "true"]
    /\ UNCHANGED <<end_reason, cycle, cmd_file, lock_file, rc_raw, executed,
                   nwrites>>
    /\ UNCHANGED <<recoveryVars, healthVars, updateVars, failoverVars,
                   maskVars>>

\* lines 261-266: the file is looked for again; while it exists the loop
\* sleeps and looks again, and once it is gone the call returns True.
RcWait ==
    /\ main_pc = "rc_wait"
    /\ IF lock_file
       THEN UNCHANGED <<main_pc, rc_ret>>
       ELSE /\ main_pc' = "detect"
            /\ rc_ret' = [rc_ret EXCEPT !.ret = "true"]
    /\ UNCHANGED <<end_reason, cycle, cmd_file, lock_file, rc_raw, executed,
                   nwrites>>
    /\ UNCHANGED <<recoveryVars, healthVars, updateVars, failoverVars,
                   maskVars>>

\* run_strategy after the poll, lines 137-162, then the sleep of 279-282:
\* nothing to recover (ONLINE, PENDING, unknown state); OFFLINE with
\* execute_action_a returning True, then reset_counters.
StrategyQuiet ==
    /\ main_pc = "detect"
    /\ rc_ret' = NoRet
    /\ \E acted \in BOOLEAN :
          IF acted
          THEN reset_counters
          ELSE UNCHANGED recoveryVars
    /\ main_pc' = "health"
    /\ cycle' = [cycle EXCEPT !.stage = "done"]
    /\ UNCHANGED <<end_reason, cmd_file, lock_file, rc_raw, executed,
                   nwrites>>
    /\ UNCHANGED <<healthVars, updateVars, failoverVars,
                   maskVars>>

\* run_strategy, lines 145-157: execute_action_a caught an exception
\* (lines 96-100) or the state is ERROR: attempt_recovery is called.
StrategyRecovers ==
    /\ main_pc = "detect"
    /\ rc_ret' = NoRet
    /\ AttemptRecovery("strategy")
    /\ UNCHANGED <<cmd_file, lock_file, rc_raw, executed,
                   nwrites>>
    /\ UNCHANGED <<healthVars, updateVars, failoverVars,
                   maskVars>>

\* An exception leaves run_strategy.
StrategyRaises ==
    /\ main_pc = "detect"
    /\ rc_ret' = NoRet
    /\ main_pc' = "except"
    /\ UNCHANGED <<end_reason, cycle, cmd_file, lock_file, rc_raw, executed,
                   nwrites>>
    /\ UNCHANGED <<recoveryVars, healthVars, updateVars, failoverVars,
                   maskVars>>

\* lines 291-294: except Exception: attempt_recovery, sleep
MainExcept ==
    /\ main_pc = "except"
    /\ AttemptRecovery("exception")
    /\ UNCHANGED <<cmd_file, lock_file, rc_raw, rc_ret, executed,
                   nwrites>>
    /\ UNCHANGED <<healthVars, updateVars, failoverVars,
                   maskVars>>

\* lines 288-290: KeyboardInterrupt leaves the loop
Interrupt ==
    /\ main_pc # "done"
    /\ Exit("interrupt")
    /\ UNCHANGED <<cycle, cmd_file, lock_file, rc_raw, rc_ret, executed,
                   nwrites>>
    /\ UNCHANGED <<recoveryVars, healthVars, updateVars, failoverVars,
                   maskVars>>

\* The operator writes the command file (any time, from outside).
WriteCommand ==
    /\ main_pc # "done"
    /\ nwrites < MaxWrites
    /\ nwrites' = nwrites + 1
    /\ \E content \in CommandContents(now) :
          cmd_file' = [id |-> nwrites + 1, content |-> content]
    /\ UNCHANGED <<main_pc, end_reason, cycle, lock_file, rc_raw, rc_ret,
                   executed>>
    /\ UNCHANGED <<recoveryVars, healthVars, updateVars, failoverVars,
                   maskVars>>

\* The operator creates the pause-lock file.
CreateLock ==
    /\ main_pc # "done"
    /\ nwrites < MaxWrites
    /\ ~lock_file
    /\ lock_file' = TRUE
    /\ nwrites' = nwrites + 1
    /\ UNCHANGED <<main_pc, end_reason, cycle, cmd_file, rc_raw, rc_ret,
                   executed>>
    /\ UNCHANGED <<recoveryVars, healthVars, updateVars, failoverVars,
                   maskVars>>

\* The operator removes the pause-lock file.
RemoveLock ==
    /\ main_pc # "done"
    /\ lock_file
    /\ lock_file' = FALSE
    /\ UNCHANGED <<main_pc, end_reason, cycle, cmd_file, rc_raw, rc_ret,
                   executed, nwrites>>
    /\ UNCHANGED <<recoveryVars, healthVars, updateVars, failoverVars,
                   maskVars>>

NextMain ==
    \/ MainGoto
    \/ MainLogin
    \/ MainHealth
    \/ RcRead
    \/ RcRemove
    \/ RcAct
    \/ RcLock
    \/ RcWait
    \/ StrategyQuiet
    \/ StrategyRecovers
    \/ StrategyRaises
    \/ MainExcept
    \/ Interrupt
    \/ WriteCommand
    \/ CreateLock
    \/ RemoveLock
    \/ Tick


-----------------------------------------------------------------------------
(* mask_url applied to subscription URLs *)

MaxParams == 2          \* query parameters of a URL

MaskNetlocs == {<<"a", ".", "i", "o">>, <<"[", "a">>}
MaskPaths == {<<"/", "s">>, <<"/", "s", "u", "b", "/", "l", "o", "n", "g", "/", "p", "a", "t", "h", "/", "t", "o", "/", "l", "i", "s", "t">>}
MaskKeys == {<<"k">>, <<"t", "o", "k", "e", "n">>}
MaskValues == {<<>>, <<"x", "1">>, <<"S", "E", "C", "R", "E", "T">>}
MaskParams == {[k |-> k, v |-> v] : k \in MaskKeys, v \in MaskValues}
MaskQueries == UNION {[1..n -> MaskParams] : n \in 0..MaxParams}

\* The URLs mask_url is applied to: well-formed ones and ones urlparse
\* rejects, with the query starting before or after the 25th character.
MaskInputs ==
    {[scheme |-> <<"h", "t", "t", "p">>, netloc |-> n, path |-> p, query |-> q] :
        n \in MaskNetlocs, p \in MaskPaths, q \in MaskQueries}

InitMask ==
    /\ mask_in = NoUrl
    /\ mask_out = mask_url(NoUrl)

\* mask_url(sub_url) as called at proxy_helper.py 267 and 301
MaskUrl ==
    /\ \E url \in MaskInputs :
          /\ mask_in' = url
          /\ mask_out' = mask_url(url)
    /\ UNCHANGED <<recoveryVars, healthVars, updateVars, failoverVars,
                   mainVars>>

NextMask == MaskUrl

Init ==
    /\ InitRecovery
    /\ InitHealth
    /\ InitUpdate
    /\ InitFailover
    /\ InitMain
    /\ InitMask

SpecFailover == Init /\ [][NextFailover]_vars

SpecMain == Init /\ [][NextMain]_vars

SpecMask == Init /\ [][NextMask]_vars

SpecRecovery == Init /\ [][NextRecovery]_vars

\* The caller keeps calling handle_error while the process runs.
SpecPersist ==
    Init /\ [][NextPersist]_vars /\ WF_vars(HandleErrorFailing)

SpecHealth == Init /\ [][NextHealth]_vars

SpecCheck == Init /\ [][NextCheck]_vars

SpecUpdate == Init /\ [][NextUpdate]_vars

-----------------------------------------------------------------------------
(* Claims about the RecoveryManager *)

Reloads == {"A_ok", "A_fail"}
Navigations == {"B_ok", "B_fail"}
Has(acts, S) == \E i \in 1..Len(acts) : acts[i] \in S

\* Two successive handle_error calls less than the cooldown apart.
TwoCallsWithinCooldown ==
    /\ call.kind = "handle"
    /\ call.prev_kind = "handle"
    /\ call.time - call.prev_time < RECOVERY_COOLDOWN_SECONDS

SecondCallSkipped == call.acts = <<>> /\ call.ret = "false"

\* C1 (as stated): a handle_error call made less than 30 s after the previous
\* call performs no recovery action and returns false, whatever the previous
\* call's recovery did.
C1_AnyOutcome == TwoCallsWithinCooldown => SecondCallSkipped

\* C1 (amended): a handle_error call made less than 30 s after a previous call
\* that returned true (a recovery that succeeded, the only case in which the
\* timestamp is recorded) performs no recovery action and returns false.
C1_AfterSuccess ==
    (TwoCallsWithinCooldown /\ call.prev_ret = "true") => SecondCallSkipped

C1_Witness ==
    /\ TwoCallsWithinCooldown
    /\ call.prev_ret = "true"
    /\ call.time > call.prev_time
    /\ SecondCallSkipped
    /\ call.cooldown

\* C2: a failed Level A attempt raises error_count_a by exactly one; below the
\* threshold 5 the call attempts nothing else, and when the raised counter is
\* at least 5 the same call goes on to a Level B navigation, so that B is
\* attempted before any further Level A reload.
C2_AThenB ==
    (call.kind = "handle" /\ call.acts # <<>> /\ call.acts[1] = "A_fail") =>
        LET a == call.pre_a + 1 IN
        /\ \A i \in 2..Len(call.acts) : call.acts[i] \notin Reloads
        /\ a < RECOVERY_MAX_A_ERRORS => ~Has(call.acts, Navigations)
        /\ a >= RECOVERY_MAX_A_ERRORS =>
              Len(call.acts) >= 2 /\ call.acts[2] \in Navigations
        /\ (lastop = "handle" /\ ~Has(call.acts, {"B_ok"})) =>
              error_count_a = a

C2_Witness ==
    /\ lastop = "handle"
    /\ call.pre_a = RECOVERY_MAX_A_ERRORS - 1
    /\ call.acts = <<"A_fail", "B_fail">>
    /\ error_count_a = RECOVERY_MAX_A_ERRORS

\* C3: when a_still_fail_count is at its threshold 3 or above (on entry, or
\* after the call's own update of it), a handle_error call that passes the
\* cooldown gate attempts Level B first and performs no Level A reload.
C3_BypassSkipsA ==
    (/\ call.kind = "handle"
     /\ ~call.cooldown
     /\ \/ call.pre_s >= RECOVERY_MAX_A_STILL_FAIL
        \/ call.asf >= RECOVERY_MAX_A_STILL_FAIL) =>
        /\ call.acts # <<>>
        /\ call.acts[1] \in Navigations
        /\ ~Has(call.acts, Reloads)

C3_Witness ==
    /\ call.kind = "handle"
    /\ ~call.cooldown
    /\ call.pre_s = RECOVERY_MAX_A_STILL_FAIL
    /\ call.acts = <<"B_fail">>

\* C4: a failed Level B attempt that brings error_count_b to 3 triggers Level C
\* in the same call (bypass path and A-then-B path alike), and Level C is
\* triggered only with error_count_b at 3 or more.
C4_LevelCAtThreshold ==
    /\ (/\ call.kind = "handle"
        /\ Has(call.acts, {"B_fail"})
        /\ call.pre_b + 1 >= RECOVERY_MAX_B_ERRORS) =>
           /\ Has(call.acts, {"exit"})
           /\ call.ret = "exit"
           /\ ~running
    /\ (~running \/ Has(call.acts, {"notify", "sleep", "exit"})) =>
           /\ error_count_b >= RECOVERY_MAX_B_ERRORS
           /\ call.ret = "exit"
           /\ Has(call.acts, {"B_fail"})

C4_Witness ==
    /\ ~running
    /\ call.acts = <<"B_fail">> \o LevelCEvents
    /\ call.pre_b = RECOVERY_MAX_B_ERRORS - 1
    /\ error_count_b = RECOVERY_MAX_B_ERRORS

\* C13: after reset_counters the three counters are 0 and
\* last_recovery_level is None, whatever they were before.
C13_ResetZeroes ==
    lastop = "reset" =>
        /\ error_count_a = 0
        /\ error_count_b = 0
        /\ a_still_fail_count = 0
        /\ last_recovery_level = "None"

\* reset_counters ran right after a call that left all three counters
\* positive and last_recovery_level = "A".
C13_Witness ==
    /\ lastop = "reset"
    /\ call.acts = <<"B_fail">>
    /\ call.pre_level = "A"
    /\ call.pre_a > 0
    /\ error_count_a = 0
    /\ error_count_b = 0
    /\ a_still_fail_count = 0
    /\ last_recovery_level = "None"

LevelCTaken == Has(call.acts, {"notify", "sleep", "exit"})

\* C14: Level C is the notification, then the 30 s delay, then the exit with
\* status 2, in this order and as the last events of the call; the call does
\* not return, and no step follows the exit.
C14_LevelCTerminal ==
    /\ [](LevelCTaken \/ ~running =>
            /\ Len(call.acts) > 3
            /\ SubSeq(call.acts, Len(call.acts) - 2, Len(call.acts))
                  = <<"notify", "sleep", "exit">>
            /\ \A i \in 1..(Len(call.acts) - 3) :
                  call.acts[i] \in Reloads \cup Navigations
            /\ call.ret = "exit"
            /\ ~running
            /\ exit_code = RECOVERY_RESTART_EXIT_CODE
            /\ now = call.time + RECOVERY_C_RESTART_DELAY_SECONDS)
    /\ [][running]_vars

C14_Witness ==
    /\ ~running
    /\ exit_code = RECOVERY_RESTART_EXIT_CODE
    /\ call.acts = <<"A_fail", "B_fail", "notify", "sleep", "exit">>

NonNegative ==
    /\ error_count_a >= 0
    /\ error_count_b >= 0
    /\ a_still_fail_count >= 0

NonZeroCounters ==
    {c \in {"a", "b", "s"} :
        \/ c = "a" /\ error_count_a # 0
        \/ c = "b" /\ error_count_b # 0
        \/ c = "s" /\ a_still_fail_count # 0}

\* A step that takes two or more counters to 0, leaving all three at 0.
ZeroedTogether ==
    /\ Cardinality(NonZeroCounters) >= 2
    /\ error_count_a' = 0
    /\ error_count_b' = 0
    /\ a_still_fail_count' = 0

\* C16 (as stated): the counters are never negative, and only reset_counters
\* takes them to 0 together, never handle_error.
C16_OnlyReset ==
    /\ []NonNegative
    /\ [][ZeroedTogether => lastop' = "reset"]_vars

\* C16 (amended): the counters are never negative, and they are taken to 0
\* together by reset_counters or by a handle_error call whose Level B
\* navigation succeeded, and by nothing else.
C16_ResetOrLevelB ==
    /\ []NonNegative
    /\ [][ZeroedTogether =>
            \/ lastop' = "reset"
            \/ /\ lastop' = "handle"
               /\ call'.ret = "true"
               /\ call'.acts[Len(call'.acts)] = "B_ok"
               /\ last_recovery_level' = "B"]_vars

\* handle_error has just zeroed all three counters through Level B.
C16_Witness ==
    /\ lastop = "handle"
    /\ call.acts = <<"B_ok">>
    /\ call.pre_a > 0 /\ call.pre_b > 0 /\ call.pre_s > 0
    /\ error_count_a = 0 /\ error_count_b = 0 /\ a_still_fail_count = 0

-----------------------------------------------------------------------------
(* Claims about multi_point_test *)

Succeeded(res) == {i \in DOMAIN res : res[i] > 0}
Failed(res) == DOMAIN res \ Succeeded(res)
Tested == results # <<>>

\* m is a middle value of the successful latencies: at least half of them
\* are <= m and at least half are >= m.
IsMiddle(res, m) ==
    /\ \E i \in Succeeded(res) : res[i] = m
    /\ 2 * Cardinality({i \in Succeeded(res) : res[i] <= m})
          >= Cardinality(Succeeded(res))
    /\ 2 * Cardinality({i \in Succeeded(res) : res[i] >= m})
          >= Cardinality(Succeeded(res))

Smallest(res) == CHOOSE m \in {res[i] : i \in Succeeded(res)} :
                    \A i \in Succeeded(res) : m <= res[i]
Largest(res) == CHOOSE m \in {res[i] : i \in Succeeded(res)} :
                    \A i \in Succeeded(res) : m >= res[i]

C7_MajorityFailure ==
    (Tested /\ Cardinality(Failed(results)) >= 2) =>
        health = [latency |-> 9999, status |-> "unhealthy"]

C7_Witness ==
    /\ results = <<0, 0, 100>>
    /\ health = [latency |-> 9999, status |-> "unhealthy"]

-----------------------------------------------------------------------------
(* Claims about update_subscription *)

Apart(x, y) == IF x >= y THEN x - y ELSE y - x

\* C8: of two update_subscription calls entered less than 30 s apart, at most
\* one performs the network fetch, on one thread or on two.
C8_FetchOnce ==
    \A i, j \in DOMAIN fetch_log :
        i < j => Apart(fetch_log[i], fetch_log[j]) >= MIN_SUBSCRIBE_INTERVAL

\* C9: at most one thread is between the acquire and the release of the lock,
\* and it is the holder; a call that found the lock held has returned true
\* without fetching and without writing the status file.
C9_MutualExclusion ==
    /\ Cardinality({t \in Threads : pc[t] \in CriticalSection}) <= 1
    /\ \A t \in Threads : pc[t] \in CriticalSection => subscribe_lock = t
    /\ \A t \in Threads :
          rec[t].why = "busy" =>
              /\ pc[t] = "idle"
              /\ rec[t].ret = "true"
              /\ ~rec[t].fetched
              /\ ~rec[t].wrote

C9_Witness ==
    \E t, u \in Threads :
        /\ pc[t] = "fetch"
        /\ subscribe_lock = t
        /\ pc[u] = "idle"
        /\ rec[u].why = "busy"
        /\ rec[u].ret = "true"

\* A thread that held the lock returns in this step.
AttemptReturns(t) == pc[t] \in CriticalSection /\ pc'[t] = "idle"

\* C10: when an attempt that passed both guards returns, the status file
\* holds the record of that attempt (unless the write itself raised):
\* success is the value returned, and a failed attempt has a non-null error.
C10_StatusRecorded ==
    [][\A t \in Threads :
          (AttemptReturns(t) /\ ~rec'[t].write_failed) =>
              /\ status_file'.written
              /\ status_file'.last_update >= rec'[t].now
              /\ status_file'.success = (rec'[t].ret = "true")
              /\ rec'[t].ret = "false" => status_file'.error # "null"]_vars


\* C17 (as stated): a call made less than 30 s after the latest attempt
\* returns true without fetching, whatever that attempt's outcome was
\* (failed, or abandoned because no subscription URL is configured).
C17_DebouncedAfterAnyAttempt ==
    \A t \in Threads :
        rec[t].after_attempt /\ rec[t].ret # "none" =>
            /\ rec[t].ret = "true"
            /\ ~rec[t].fetched

\* C18 (as stated): a call whose fetched content passed validation has
\* triggered a configuration reload, and a reload is triggered by nothing
\* else.
C18_ReloadOnValid ==
    /\ \A t \in Threads :
          \/ rec[t].why = "ok"
          \/ pc[t] \in {"write_status", "replace", "release"} /\ t_status[t].success
          => reload_log # <<>>
    /\ fetch_log = <<>> => reload_log = <<>>

-----------------------------------------------------------------------------
(* Claims about try_fix_network *)

GroupIndex(g) == CHOOSE i \in DOMAIN ProxyGroups : ProxyGroups[i].name = g

NodeIndex(g, n) ==
    CHOOSE j \in DOMAIN ProxyGroups[GroupIndex(g)].all :
        ProxyGroups[GroupIndex(g)].all[j] = n

\* p comes before q in group-then-node order
Earlier(p, q) ==
    \/ GroupIndex(p.group) < GroupIndex(q.group)
    \/ /\ p.group = q.group
       /\ NodeIndex(p.group, p.node) < NodeIndex(q.group, q.node)

\* the probe answered with a latency under 800 ms
ProbedWell(p) == p.latency > 0 /\ p.latency < HEALTH_THRESHOLDS_HEALTHY

GoodProbes == SelectSeq(fix.probes, ProbedWell)

SameNode(p, q) == p.group = q.group /\ p.node = q.node

\* C11 (as stated): when some candidate probed well, try_fix_network
\* returns True having switched to the first such candidate and to no other,
\* and nothing is probed after it.
C11_FirstQualifying ==
    fix.called /\ GoodProbes # <<>> =>
        /\ fix.ret
        /\ Len(fix.switches) = 1
        /\ SameNode(fix.switches[1], GoodProbes[1])
        /\ fix.switches[1].accepted
        /\ SameNode(fix.probes[Len(fix.probes)], GoodProbes[1])
        /\ selected = [fix.before EXCEPT
                          ![GoodProbes[1].group] = GoodProbes[1].node]

\* C11 (amended): the candidates are probed in group-then-node order; each
\* one that probed well is asked for, in that order, until a switch request
\* is accepted; that request is the last thing done and the call returns
\* True; with no accepted request it returns False.
C11_FirstAccepted ==
    fix.called =>
        /\ Len(fix.probes) <= Len(fix.cands)
        /\ \A i \in DOMAIN fix.probes :
              /\ SameNode(fix.probes[i], fix.cands[i])
              /\ ProxyGroups[GroupIndex(fix.probes[i].group)].type = "Selector"
              /\ fix.probes[i].node \notin {"DIRECT", "REJECT", "GLOBAL"}
              /\ fix.probes[i].node # fix.before[fix.probes[i].group]
        /\ \A i, j \in DOMAIN fix.cands :
              i < j => Earlier(fix.cands[i], fix.cands[j])
        /\ Len(fix.switches) = Len(GoodProbes)
        /\ \A k \in DOMAIN fix.switches :
              /\ SameNode(fix.switches[k], GoodProbes[k])
              /\ k < Len(fix.switches) => ~fix.switches[k].accepted
        /\ fix.ret <=> /\ fix.switches # <<>>
                       /\ fix.switches[Len(fix.switches)].accepted
        /\ fix.ret =>
              LET last == fix.switches[Len(fix.switches)]
              IN  /\ SameNode(fix.probes[Len(fix.probes)], last)
                  /\ selected[last.group] = last.node
        /\ ~fix.ret /\ fix.api_ok => Len(fix.probes) = Len(fix.cands)

\* The first candidate that probed well was refused, a later one accepted.
C11_Witness ==
    /\ fix.ret
    /\ Len(fix.switches) = 2
    /\ ~fix.switches[1].accepted
    /\ fix.switches[2].accepted
    /\ fix.switches[1].group = "Proxy"
    /\ fix.switches[2].group = "Media"
    /\ selected["Media"] = fix.switches[2].node

\* C12: when every probe of the call failed, try_fix_network returns False,
\* has asked for no switch, and every group's selection is what it was.
C12_AllProbesFail ==
    fix.called /\ (\A i \in DOMAIN fix.probes : fix.probes[i].latency = 0) =>
        /\ ~fix.ret
        /\ fix.switches = <<>>
        /\ selected = fix.before

\* Both Selector groups listed their nodes and all three candidates failed.
C12_Witness ==
    /\ fix.called
    /\ fix.api_ok
    /\ Len(fix.probes) = 3
    /\ \A i \in DOMAIN fix.probes : fix.probes[i].latency = 0
    /\ fix.probes[1].group = "Proxy"
    /\ fix.probes[3].group = "Media"
    /\ ~fix.ret
    /\ selected = fix.before

-----------------------------------------------------------------------------
(* Claims about main and check_remote_control *)

Terminated == main_pc = "done"

\* C15 (as stated): the process ends through Level C only; no fault main
\* handles (unhealthy network, strategy exception, failed recovery, login
\* wait timing out) ends it. A keyboard interrupt and an exception of the
\* first navigation, which main does not handle, are left aside.
C15_OnlyLevelC ==
    Terminated => end_reason \in {"level_c", "interrupt", "startup_error"}

LoopEnds == {"level_c", "interrupt"}

\* A step that ends the process from inside the loop
LoopLeftByLevelC ==
    (main_pc \in LoopPcs /\ Terminated') => (end_reason' \in LoopEnds)

\* A step that finishes an iteration, with or without a fault
FaultStartsNextIteration ==
    (cycle'.stage = "done" /\ cycle' # cycle) =>
        (main_pc' = "health" /\ end_reason' = "none")

\* C15 (amended): once the main loop is entered, Level C (sys.exit with the
\* restart code) and a keyboard interrupt are the only ways out: an unhealthy
\* network, an exception of the strategy and a failed recovery start the next
\* iteration. Before the loop, a login wait that timed out ends the process.
C15_LoopEndsByLevelC ==
    /\ [](Terminated =>
            end_reason \in {"level_c", "interrupt", "startup_error",
                            "login_timeout"})
    /\ [](end_reason = "level_c" =>
            /\ Terminated
            /\ ~running
            /\ exit_code = RECOVERY_RESTART_EXIT_CODE
            /\ LevelCTaken)
    /\ [](Terminated /\ end_reason # "level_c" => running)
    /\ [][LoopLeftByLevelC]_vars
    /\ [][FaultStartsNextIteration]_vars

\* Level C ended the process from the exception handler of the main loop.
C15_Witness ==
    /\ Terminated
    /\ end_reason = "level_c"
    /\ cycle.fault = "exception"
    /\ cycle.healthy
    /\ exit_code = RECOVERY_RESTART_EXIT_CODE

\* C19 (as stated, as a property of finished iterations): every iteration
\* of the main loop has polled check_remote_control, also the iterations in
\* which the network was unhealthy and could not be fixed.
C19_PolledEveryCycle == cycle.stage = "done" => cycle.polled

Executions(id) == {i \in DOMAIN executed : executed[i].id = id}

\* C20: every write of the command file is acted on at most once, and by
\* the time check_remote_control parses what it read, that write is no
\* longer in the file.
C20_ConsumedAtMostOnce ==
    /\ \A id \in 1..nwrites : Cardinality(Executions(id)) <= 1
    /\ main_pc = "rc_act" => cmd_file.id # rc_raw.id
    /\ \A i \in DOMAIN executed : cmd_file.id # executed[i].id

\* Both writes were acted on, the second in a later poll than the first.
C20_Witness ==
    /\ Len(executed) >= 2
    /\ executed[1].id = 1
    /\ executed[2].id = 2
    /\ cmd_file = NoFile
    /\ cycle.polled

-----------------------------------------------------------------------------
(* More claims about multi_point_test and handle_error *)

\* the probe results of the latest run, taken in the order p
Permuted(p) == [i \in DOMAIN results |-> results[p[i]]]

\* C22: every permutation of the probe results of a run classifies to the
\* latency and status the run returned, and so do the results themselves
\* when classified again.
C22_OrderIndependent ==
    results # <<>> =>
        /\ multi_point_test(results) = health
        /\ \A p \in Permutations(DOMAIN results) :
              multi_point_test(Permuted(p)) = health

\* The probes came back in descending order, with the middle value last.
C22_Witness ==
    /\ results = <<900, 100, 250>>
    /\ health = [latency |-> 250, status |-> "excellent"]

\* C23: with fewer than 2 failed probes the returned latency m maps to the
\* status by ascending thresholds: m < 300 excellent, 300 <= m < 800
\* healthy, 800 <= m < 1500 degraded, m >= 1500 unhealthy.
C23_Thresholds ==
    results # <<>> /\ FailedCount(results) < 2 =>
        LET m == health.latency
        IN  /\ m < 300 => health.status = "excellent"
            /\ 300 <= m /\ m < 800 => health.status = "healthy"
            /\ 800 <= m /\ m < 1500 => health.status = "degraded"
            /\ m >= 1500 => health.status = "unhealthy"
            /\ \E i \in DOMAIN results : results[i] = m

\* No probe failed and the returned latency sits on the 800 ms threshold.
C23_Witness ==
    /\ results = <<800, 1500, 300>>
    /\ health = [latency |-> 800, status |-> "degraded"]

\* C30 (as stated): in a call where Level A succeeds, error_count_a is 0,
\* the last level is A, the recovery time is the time of the call, the call
\* returns True, error_count_b is what it was and a_still_fail_count keeps
\* the value the bypass check gave it; in a call where Level A fails,
\* error_count_a is one more than it was and the last level is unchanged.
C30_LevelAFrame ==
    lastop = "handle" =>
        /\ Has(call.acts, {"A_ok"}) =>
              /\ error_count_a = 0
              /\ last_recovery_level = "A"
              /\ last_recovery_time = call.time
              /\ call.ret = "true"
              /\ error_count_b = call.pre_b
              /\ a_still_fail_count = call.asf
        /\ Has(call.acts, {"A_fail"}) =>
              /\ error_count_a = call.pre_a + 1
              /\ last_recovery_level = call.pre_level

\* C30 (amended): the success half as stated; in a call where Level A
\* fails, error_count_a is one more than it was and the last level is
\* unchanged unless the same call goes on to a successful Level B, which
\* resets the three counters and records level B.
C30_LevelAFrameUnlessB ==
    lastop = "handle" =>
        /\ Has(call.acts, {"A_ok"}) =>
              /\ error_count_a = 0
              /\ last_recovery_level = "A"
              /\ last_recovery_time = call.time
              /\ call.ret = "true"
              /\ error_count_b = call.pre_b
              /\ a_still_fail_count = call.asf
        /\ Has(call.acts, {"A_fail"}) /\ ~Has(call.acts, {"B_ok"}) =>
              /\ error_count_a = call.pre_a + 1
              /\ last_recovery_level = call.pre_level
        /\ Has(call.acts, {"A_fail"}) /\ Has(call.acts, {"B_ok"}) =>
              /\ call.pre_a + 1 >= RECOVERY_MAX_A_ERRORS
              /\ error_count_a = 0
              /\ error_count_b = 0
              /\ a_still_fail_count = 0
              /\ last_recovery_level = "B"

\* Level A succeeded while error_count_b and a_still_fail_count were
\* positive.
C30_Witness ==
    /\ lastop = "handle"
    /\ call.acts = <<"A_ok">>
    /\ call.pre_a > 0
    /\ error_count_a = 0
    /\ error_count_b > 0
    /\ a_still_fail_count > 0
    /\ last_recovery_level = "A"

-----------------------------------------------------------------------------
(* Claims about mask_url *)

\* v occurs in text as a run of consecutive characters
Occurs(v, text) ==
    \E i \in 1..(Len(text) - Len(v) + 1) :
        SubSeq(text, i, i + Len(v) - 1) = v

\* C25: the text mask_url returns contains none of the (non-empty) query
\* parameter values of the URL it was given, whether urlparse accepted the
\* URL or not.
C25_NoValueInMask ==
    \A i \in DOMAIN mask_in.query :
        mask_in.query[i].v # <<>> => ~Occurs(mask_in.query[i].v, mask_out)

\* The status document changes only by the rename of a whole temporary file.
C26_ReplacedWhole ==
    status_file' # status_file =>
        /\ \E t \in Threads : pc[t] = "replace" /\ pc'[t] = "release"
        /\ tmp_file.complete
        /\ status_file' = tmp_file

\* C26: the status document is written atomically. At every point of every
\* interleaving of update_subscription calls the file subscribe_status.json
\* holds a complete document, and when its content changes it goes in one
\* step from the previous complete document to the new one, which was first
\* written in full to the temporary file.
C26_AtomicStatus ==
    /\ [](status_file.complete)
    /\ [][C26_ReplacedWhole]_vars

\* A write has stopped half-way in the temporary file while the status file
\* still holds the complete document of an earlier update.
C26_Witness ==
    /\ tmp_file = Truncated
    /\ status_file.written
    /\ status_file.complete
    /\ \E t \in Threads : pc[t] = "release" /\ rec[t].write_failed

-----------------------------------------------------------------------------
(* More claims about check_remote_control and main *)

\* check_remote_control parses the content it read and acts on it.
Acts == main_pc = "rc_act" /\ main_pc' \notin {"rc_act", "done"}

\* The command read is accepted: it is executed or surfaced.
Accepted ==
    executed' = Append(executed, [id |-> rc_raw.id, cmd |-> rc_raw.content.cmd])

\* C21 (as stated): a structured command whose timestamp is more than 60 s
\* older than the time of the poll is discarded with no side effect, and one
\* whose timestamp is at most 60 s old is accepted.
C21_ExpiryWindow ==
    [][Acts /\ rc_raw.content.kind = "json" =>
          IF now - rc_raw.content.ts > REMOTE_COMMAND_EXPIRY_SECONDS
          THEN executed' = executed
          ELSE Accepted]_vars

\* The expiry rule for timestamps other than 0.
C21_NonZeroWindow ==
    Acts /\ rc_raw.content.kind = "json" /\ rc_raw.content.ts # 0 =>
          IF now - rc_raw.content.ts > REMOTE_COMMAND_EXPIRY_SECONDS
          THEN executed' = executed
          ELSE Accepted

\* A timestamp of 0 is no timestamp.
C21_ZeroNeverExpires ==
    Acts /\ rc_raw.content.kind = "json" /\ rc_raw.content.ts = 0 => Accepted

\* What holds of the expiry rule: a structured command whose timestamp is
\* not 0 is discarded with no side effect when the timestamp is more than
\* 60 s older than the poll and accepted when it is at most 60 s old; a
\* timestamp of 0 counts as no timestamp and the command is accepted
\* whatever the time of the poll.
ExpiryWindowNonZero ==
    /\ [][C21_NonZeroWindow]_vars
    /\ [][C21_ZeroNeverExpires]_vars

\* A command stamped exactly 60 s before the poll has been accepted, after
\* an older one was dropped in an earlier poll.
AcceptedAtLimit ==
    /\ main_pc = "detect"
    /\ rc_ret.age = REMOTE_COMMAND_EXPIRY_SECONDS
    /\ ~rc_ret.expired
    /\ executed = <<[id |-> 2, cmd |-> "update_subscribe"]>>

\* The content read carries no timestamp, or one at most 60 s older than
\* the poll.
NotExpired ==
    \/ rc_raw.content.kind # "json"
    \/ rc_raw.content.ts = 0
    \/ now - rc_raw.content.ts <= REMOTE_COMMAND_EXPIRY_SECONDS

\* C27 (as stated): every non-expired, non-empty command read from the
\* command file, structured or bare, is executed or surfaced, exactly once;
\* a bare command string never expires.
C27_EveryCommandActed ==
    [][Acts /\ rc_raw.content.cmd # "" /\ NotExpired => Accepted]_vars

\* A command given as a JSON object or as text that is not JSON is acted on.
C27_ObjectOrText ==
    Acts /\ rc_raw.content.kind \in {"json", "text"}
         /\ rc_raw.content.cmd # "" /\ NotExpired
      => Accepted

\* Content that is JSON but no object is dropped.
C27_OtherJsonDropped ==
    Acts /\ rc_raw.content.kind = "json_other" => executed' = executed

\* C27 (amended): every non-expired, non-empty command given as a JSON
\* object or as text that is not valid JSON is acted on exactly once:
\* update_subscribe calls the Subscription Updater, any other name is
\* reported as received; text that is not JSON never expires. Content that
\* is valid JSON but not an object (a number, a quoted string) is dropped
\* without any effect.
C27_ObjectOrTextActed ==
    /\ [][C27_ObjectOrText]_vars
    /\ [][C27_OtherJsonDropped]_vars

\* A bare update_subscribe has been executed after an unrecognised
\* structured command was reported.
C27_Witness ==
    /\ main_pc = "detect"
    /\ rc_ret.kind = "text"
    /\ executed = <<[id |-> 1, cmd |-> "logout"],
                    [id |-> 2, cmd |-> "update_subscribe"]>>

\* check_remote_control returns to run_strategy.
Returns == main_pc \in {"rc_lock", "rc_wait"} /\ main_pc' = "detect"

\* The step check_remote_control takes at its pause-lock test and in its
\* wait loop.
C28_PauseStep ==
    /\ main_pc = "rc_lock" /\ main_pc' \notin {"rc_lock", "done"} =>
          IF lock_file
          THEN main_pc' = "rc_wait"
          ELSE Returns /\ rc_ret'.ret = "false"
    /\ main_pc = "rc_wait" /\ main_pc' \notin {"rc_wait", "done"} =>
          /\ ~lock_file
          /\ Returns
          /\ rc_ret'.ret = "true"

\* C28: when the pause-lock file exists at the poll, check_remote_control
\* enters its wait loop and does not return while the file exists; once the
\* file is gone its next step is the return, with should_run_immediately
\* True. When no pause-lock file exists at the poll it returns False at
\* once, without waiting.
C28_PauseLock ==
    /\ [][C28_PauseStep]_vars
    /\ [](main_pc = "rc_wait" /\ ~lock_file => ENABLED (RcWait /\ Returns))
    /\ [](rc_ret.ret = "true" => rc_ret.waited)
    /\ [](rc_ret.ret = "false" => ~rc_ret.waited)

\* The call waited for the pause-lock file to be removed and returned True.
C28_Witness ==
    /\ main_pc = "detect"
    /\ rc_ret.waited
    /\ rc_ret.ret = "true"
    /\ ~lock_file

\* The statements of run_strategy and of check_remote_control it calls
StrategyPcs == {"rc_read", "rc_remove", "rc_act", "rc_lock", "rc_wait", "detect"}

\* An iteration in which check_health reported unhealthy and try_fix_network
\* did not return True ends at once, and the loop starts over at the health
\* check.
C29_BacksOff ==
    (cycle' # cycle /\ ~cycle'.healthy) =>
        /\ main_pc = "health"
        /\ main_pc' = "health"
        /\ cycle'.stage = "done"
        /\ cycle'.fault = "unhealthy"
        /\ ~cycle'.polled

\* C29: the strategy runs only in an iteration whose health check succeeded
\* (check_health healthy, or try_fix_network returned True); an iteration
\* whose check and fix both failed runs no strategy step, backs off and
\* starts over at the health check.
C29_HealthBeforeStrategy ==
    /\ [](main_pc \in StrategyPcs => cycle.healthy /\ cycle.stage = "running")
    /\ [][C29_BacksOff]_vars

\* After an iteration that ran the strategy and acted on a command, an
\* iteration found the network unhealthy, could not fix it and backed off.
C29_Witness ==
    /\ main_pc = "health"
    /\ cycle.fault = "unhealthy"
    /\ ~cycle.healthy
    /\ cycle.stage = "done"
    /\ executed # <<>>

-----------------------------------------------------------------------------
(* Claims about check_health *)

\* The position of the primary (first) Selector group among the proxies the
\* latest check_health call read; 0 when there is none.
PrimarySelector ==
    LET idx == {i \in DOMAIN checked.proxies : checked.proxies[i].type = "Selector"}
    IN  IF idx = {} THEN 0 ELSE CHOOSE i \in idx : \A j \in idx : i <= j

\* The active node of the primary Selector group; "" when the API failed,
\* there is no Selector group or the group names no active node.
ActiveNode ==
    IF checked.api_ok /\ PrimarySelector # 0
    THEN checked.cur[checked.proxies[PrimarySelector].name]
    ELSE ""

\* A call that resolves no active node makes no probe.
C24_NoProbe ==
    checked'.called /\ checked'.node = "Unknown" => UNCHANGED <<results, health>>

\* C24: check_health probes the active node of the primary Selector group
\* and reports it healthy exactly when its classified status is Excellent or
\* Healthy, with the median latency of the probes; when no active node can
\* be resolved it makes no probe and returns ("Unknown", -1, False).
C24_CheckHealth ==
    /\ [](checked.called =>
            IF ActiveNode # ""
            THEN /\ checked.node = ActiveNode
                 /\ checked.probed = NumTestUrls
                 /\ health = multi_point_test(results)
                 /\ checked.latency = health.latency
                 /\ checked.is_healthy <=> health.status \in {"excellent", "healthy"}
            ELSE /\ checked.node = "Unknown"
                 /\ checked.latency = -1
                 /\ ~checked.is_healthy
                 /\ checked.probed = 0)
    /\ [][C24_NoProbe]_vars

\* The active node was probed, its median latency is exactly the limit of
\* Healthy, and it is reported as not healthy.
C24_Witness ==
    /\ checked.called
    /\ checked.node = "hk"
    /\ checked.latency = HEALTH_THRESHOLDS_HEALTHY
    /\ health.status = "degraded"
    /\ ~checked.is_healthy

\* No Selector group was served: the sentinel is returned and the results
\* of the earlier probes are still the latest.
UnknownNodeReached ==
    /\ checked.called
    /\ checked.api_ok
    /\ checked.proxies # <<>>
    /\ checked.node = "Unknown"
    /\ results # <<>>


-----------------------------------------------------------------------------
(* Claims on handle_error: Level B outcomes, the still-fail counter,
   persistent failure *)

\* C31: a handle_error call whose Level B succeeded, reached by the
\* error_count_a threshold or by the bypass, ends with error_count_a,
\* error_count_b and a_still_fail_count at 0, last_recovery_level = "B",
\* last_recovery_time at the call's time, and returns True; a call whose
\* Level B failed ends with error_count_b one above its value at entry and
\* either returns False or takes Level C.
C31_LevelBFrame ==
    lastop = "handle" =>
        /\ Has(call.acts, {"B_ok"}) =>
               /\ error_count_a = 0
               /\ error_count_b = 0
               /\ a_still_fail_count = 0
               /\ last_recovery_level = "B"
               /\ last_recovery_time = call.time
               /\ call.ret = "true"
        /\ Has(call.acts, {"B_fail"}) =>
               /\ error_count_b = call.pre_b + 1
               /\ call.ret \in {"false", "exit"}
               /\ call.ret = "exit" <=> LevelCTaken

\* Level B succeeded at the error_count_a threshold with B failures on record.
C31_Witness ==
    /\ lastop = "handle"
    /\ call.acts = <<"A_fail", "B_ok">>
    /\ call.pre_b > 0
    /\ error_count_b = 0

\* Level B succeeded through the bypass with B failures on record.
C31_WitnessBypass ==
    /\ lastop = "handle"
    /\ call.acts = <<"B_ok">>
    /\ call.pre_b > 0
    /\ error_count_b = 0

\* C35: whenever the process is running, that is in the initial state and
\* after every handle_error call that returned, error_count_b is below
\* RECOVERY_MAX_B_ERRORS; the counter reaches the threshold only in the call
\* that takes Level C, whatever calls, clock steps and reset_counters calls
\* came before.
C35_BelowThresholdWhileRunning ==
    /\ running => error_count_b < RECOVERY_MAX_B_ERRORS
    /\ error_count_b >= RECOVERY_MAX_B_ERRORS =>
           /\ error_count_b = RECOVERY_MAX_B_ERRORS
           /\ LevelCTaken
           /\ ~running

\* A call returned False after a Level B failure left the counter one below
\* the threshold, with a Level A success and a cooldown skip before it.
C35_Witness ==
    /\ running
    /\ lastop = "handle"
    /\ Has(call.acts, {"B_fail"})
    /\ call.ret = "false"
    /\ error_count_b = RECOVERY_MAX_B_ERRORS - 1
    /\ last_recovery_level = "A"

\* A handle_error call that got past the cooldown test is taken in this step.
PastCooldownCall ==
    /\ lastop' = "handle"
    /\ call' # call
    /\ ~call'.cooldown

\* The call before this step attempted a recovery, and no reset_counters call
\* came after it.
PrecedingRecovery == lastop = "handle" /\ call.acts # <<>>

C32_AfterPrecedingRecovery ==
    PastCooldownCall /\ PrecedingRecovery =>
        call'.asf = (IF call.acts = <<"A_ok">>
                     THEN a_still_fail_count + 1
                     ELSE 0)

\* C32: a handle_error call past the cooldown adds 1 to a_still_fail_count
\* when the recovery attempted by the call before it was a Level A that
\* succeeded, and sets it to 0 otherwise; after a failed Level A attempt
\* the next call does not raise it.
C32_OnlyAfterASuccess == [][C32_AfterPrecedingRecovery]_vars

LevelChange ==
    last_recovery_level' # last_recovery_level =>
        \/ lastop' = "reset" /\ last_recovery_level' = "None"
        \/ /\ lastop' = "handle"
           /\ call'.ret = "true"
           /\ last_recovery_level' =
                  (IF Has(call'.acts, {"B_ok"}) THEN "B" ELSE "A")

\* What lines 422-425 do: a handle_error call past the cooldown adds 1 to
\* a_still_fail_count when last_recovery_level is "A" and sets it to 0
\* otherwise; a call in cooldown leaves it alone. last_recovery_level changes
\* only in a call that returns True (to the level that succeeded) and in
\* reset_counters (to None): a failed call leaves it as it was, so the calls
\* that follow a failed Level A attempt keep raising the counter while the
\* latest success is a Level A.
CountsWhileLastLevelA ==
    /\ [](lastop = "handle" /\ ~call.cooldown =>
             call.asf = (IF call.pre_level = "A" THEN call.pre_s + 1 ELSE 0))
    /\ [](lastop = "handle" /\ call.cooldown =>
             a_still_fail_count = call.pre_s)
    /\ [](lastop = "handle" /\ call.ret # "true" =>
             last_recovery_level = call.pre_level)
    /\ [][LevelChange]_vars

\* The counter was raised to 2 by a call that came after failed Level A
\* attempts: error_count_a was above 0 at entry, so the latest attempt had
\* failed, and the latest success was a Level A.
RaisedAfterFailedA ==
    /\ lastop = "handle"
    /\ ~call.cooldown
    /\ call.pre_level = "A"
    /\ call.pre_a > 0
    /\ call.prev_ret = "false"
    /\ call.asf = call.pre_s + 1
    /\ call.asf = 2

\* Every call of the run fails Level A outside the cooldown, so
\* error_count_a is the number of calls made so far.
EveryCallCounted ==
    call' # call =>
        /\ ~call'.cooldown
        /\ call'.acts[1] = "A_fail"
        /\ error_count_a' = error_count_a + 1

\* C33: from a fresh RecoveryManager, with every reload and every navigation
\* failing and the caller calling handle_error again and again, calls 1 to 4
\* attempt Level A only, calls 5 to 7 attempt Level A then Level B,
\* error_count_b reaches 3 in call 7, Level C is taken in call 7 and in no
\* other, and every such run gets there.
C33_LevelCOnSeventhCall ==
    /\ [][EveryCallCounted]_vars
    /\ [](error_count_a \in 1..4 =>
             /\ call.acts = <<"A_fail">>
             /\ call.ret = "false"
             /\ error_count_b = 0)
    /\ [](error_count_a \in 5..6 =>
             /\ call.acts = <<"A_fail", "B_fail">>
             /\ call.ret = "false"
             /\ error_count_b = error_count_a - 4)
    /\ [](error_count_a >= 7 =>
             /\ error_count_a = 7
             /\ call.acts = <<"A_fail", "B_fail">> \o LevelCEvents
             /\ call.ret = "exit"
             /\ error_count_b = RECOVERY_MAX_B_ERRORS)
    /\ [](~running <=> error_count_a = 7)
    /\ <>(~running)

\* The seventh failing call has taken Level C.
C33_Witness ==
    /\ ~running
    /\ exit_code = RECOVERY_RESTART_EXIT_CODE
    /\ call.pre_a = 6
    /\ call.pre_b = 2
    /\ error_count_b = RECOVERY_MAX_B_ERRORS
    /\ LevelCTaken


-----------------------------------------------------------------------------
(* Claims on try_fix_network and the node check_health reads *)

\* The node the next check_health call resolves when the control plane
\* serves the same groups with the selection try_fix_network left.
NextCheckedNode == get_current_node(TRUE, ProxyGroups, selected)

\* The switch that made try_fix_network return True.
LastSwitch == fix.switches[Len(fix.switches)]

\* C34: when try_fix_network returns True, the active node of the first
\* Selector group, which the next check_health resolves and probes, is the
\* node of the accepted switch, and that node's probe in the call answered
\* under 800 ms; a True return never comes from a switch in a Selector group
\* that check_health does not read.
C34_FixedNodeIsChecked ==
    fix.called /\ fix.ret =>
        /\ LastSwitch.accepted
        /\ \E k \in DOMAIN fix.probes :
              /\ fix.probes[k].group = LastSwitch.group
              /\ fix.probes[k].node = LastSwitch.node
              /\ ProbedWell(fix.probes[k])
        /\ ProxyGroups[GroupIndex(LastSwitch.group)].type = "Selector"
        /\ \A j \in 1..(GroupIndex(LastSwitch.group) - 1) :
               ProxyGroups[j].type # "Selector"
        /\ NextCheckedNode = LastSwitch.node

\* try_fix_network returned True after a switch in the second Selector group
\* alone: the first Selector group's active node is the one from before the
\* call.
FixedSecondarySelectorOnly ==
    /\ fix.called
    /\ fix.ret
    /\ LastSwitch.group = "Media"
    /\ selected["Proxy"] = fix.before["Proxy"]
    /\ NextCheckedNode = fix.before["Proxy"]
    /\ NextCheckedNode # LastSwitch.node


-----------------------------------------------------------------------------
(* Claims on the release of the subscription lock *)

\* The ways a call that acquired the lock returns: no URL configured
\* (line 297), the fetch raised (325), invalid content (313), success (320).
ExitPaths == {"no_url", "exception", "Invalid content", "ok"}

C36_ReleasedOnReturn ==
    \A t \in Threads :
        AttemptReturns(t) =>
            /\ subscribe_lock = t
            /\ subscribe_lock' = 0
            /\ rec'[t].why \in ExitPaths

C36_BusyOnlyWhileHeld ==
    \A t \in Threads :
        pc[t] = "acquire" /\ pc'[t] = "idle" =>
            /\ rec'[t].why = "busy"
            /\ \E u \in Threads \ {t} : pc[u] \in CriticalSection

\* C36: every return of an update_subscription call that acquired the lock
\* (no URL, fetch error, invalid content, success) releases it; the lock is
\* held only while its holder is between the acquire and the release, so it
\* is free whenever no call is in progress, and a call is answered "already
\* in progress" only while another call is inside that section.
C36_LockReleased ==
    /\ [][C36_ReleasedOnReturn]_vars
    /\ [][C36_BusyOnlyWhileHeld]_vars
    /\ [](subscribe_lock # 0 => pc[subscribe_lock] \in CriticalSection)
    /\ []((\A t \in Threads : pc[t] = "idle") => subscribe_lock = 0)

\* Two calls that acquired the lock have returned, one for a missing URL and
\* one after a fetch error; no call is in progress and the lock is free.
C36_Witness ==
    /\ \A t \in Threads : pc[t] = "idle"
    /\ subscribe_lock = 0
    /\ \E t, u \in Threads :
          /\ rec[t].why = "no_url"
          /\ rec[u].why = "exception"
          /\ rec[u].fetched

\* A call returned after invalid content and a later call acquired the lock.
C36_WitnessReacquired ==
    \E t, u \in Threads :
        /\ rec[t].why = "Invalid content"
        /\ pc[t] = "idle"
        /\ pc[u] = "get_url"
        /\ subscribe_lock = u

=========================================================================
